---- MODULE Spec2Model ----
(***************************************************************************)
(* A model of the reflectlang evaluator of jtolio/crawlspace: the          *)
(* tree-walking Run methods of the AST nodes, the environment with its     *)
(* binding operators ($define, $mutate), and the host objects that the     *)
(* README and the package test expose to the language.                     *)
(*                                                                         *)
(* An evaluation is one action: it runs one tree against one environment   *)
(* and appends what happened to the history. The parser is a function of   *)
(* the input text; a parse is one action that records its outcome.         *)
(*                                                                         *)
(* The session layer of crawlspace.go is modelled next to it: the registry *)
(* with RegisterVal, RegisterType and Unregister, the sessions of Interact *)
(* with their own interpreter environments, and the accept loop of Serve.  *)
(***************************************************************************)
EXTENDS Integers, Sequences, FiniteSets, TLC

VARIABLES envs, heap, hist, input, parsed,
          registrations, sessions, shells, listener, calls

\* the state of the session layer
shellVars == <<registrations, sessions, shells, listener, calls>>

\* the state of the evaluator and the parser
langVars == <<envs, heap, hist, input, parsed>>

vars == <<envs, heap, hist, input, parsed, registrations, sessions, shells, listener, calls>>

\* ------------------------------------------------------------------------
\* Bounds
\* ------------------------------------------------------------------------

\* number of evaluations in one behaviour
MaxSteps == 3

\* number of sessions (calls of Interact) in one behaviour
MaxSessions == 2

\* number of calls of RegisterVal, RegisterType and Unregister in one
\* behaviour
MaxCalls == 3

\* number of temporary accept errors in a row that Serve is followed through
MaxErrors == 10

\* ------------------------------------------------------------------------
\* Values (reflect.Value): a kind and a payload
\* ------------------------------------------------------------------------

\* reflect.ValueOf(nil): the zero Value, Kind() == Invalid
NilV == [k |-> "invalid", v |-> 0]

\* a Go int (method parameters and results of the host objects)
IntV(n) == [k |-> "int", v |-> n]

\* a Go int64 (what an integer literal parses to)
Int64V(n) == [k |-> "int64", v |-> n]

BoolV(b) == [k |-> "bool", v |-> b]

StrV(s) == [k |-> "string", v |-> s]

\* a value of interface type error; "nil" is the nil error
ErrorV(e) == [k |-> "error", v |-> e]

\* a pointer to a host object of the heap
PtrV(obj) == [k |-> "ptr", v |-> obj]

\* a bound method value obtained by MethodByName
MethodV(obj, name) == [k |-> "func", v |-> <<obj, name>>]

\* a plain host function
FuncV(name) == [k |-> "func", v |-> <<"", name>>]

\* the struct lowerFunc{Env, Func}: env is the identity of the tagged
\* environment, fn names the native closure, mutate and lhs are what the
\* closure captured
LowerFunc(env, fn, mutate, lhs) ==
    [k |-> "lowerFunc", v |-> [env |-> env, fn |-> fn, mutate |-> mutate, lhs |-> lhs]]

\* ------------------------------------------------------------------------
\* Errors
\* ------------------------------------------------------------------------

NoPos == <<>>

\* the nil error
NoErr == [type |-> "nil", pos |-> NoPos, msg |-> <<>>]

\* fmt.Errorf without a sentinel (the binding operators' errors)
PlainErr(msg) == [type |-> "error", pos |-> NoPos, msg |-> msg]

\* position.Err: sentinel, "line %d, column %d", message
PosErr(pos, type, msg) == [type |-> type, pos |-> pos, msg |-> msg]

\* a panic on its way up through the Run methods; msg is its value
PanicErr(msg) == [type |-> "panic", pos |-> NoPos, msg |-> msg]

\* the struct lowerStruct{Env, Field}: sub is the wrapped namespace
LowerStruct(env, sub) == [k |-> "lowerStruct", v |-> [env |-> env, sub |-> sub]]

\* what Value.Elem() of a pointer to a host object gives
StructV(obj) == [k |-> "struct", v |-> obj]

\* a host slice of ints ([]int): v is the sequence of its elements
SliceV(elems) == [k |-> "slice", v |-> elems]

\* ------------------------------------------------------------------------
\* Strings: a Go string is a sequence of characters
\* ------------------------------------------------------------------------

\* []rune(s) for the names, strings and operators of the model; any other
\* string of the model is a single character
Runes(s) ==
    CASE s = "a" -> <<"a">>
      [] s = "b" -> <<"b">>
      [] s = "f" -> <<"f">>
      [] s = "g" -> <<"g">>
      [] s = "s" -> <<"s">>
      [] s = "x" -> <<"x">>
      [] s = "q\"" -> <<"q", "\"">>
      [] s = "try" -> <<"t", "r", "y">>
      [] s = "arr" -> <<"a", "r", "r">>
      [] s = "nil" -> <<"n", "i", "l">>
      [] s = "true" -> <<"t", "r", "u", "e">>
      [] s = "Get" -> <<"G", "e", "t">>
      [] s = "len" -> <<"l", "e", "n">>
      [] s = "nope" -> <<"n", "o", "p", "e">>
      [] s = "<=" -> <<"<", "=">>
      [] s = ">=" -> <<">", "=">>
      [] s = "doesNotExist" ->
            <<"d", "o", "e", "s", "N", "o", "t", "E", "x", "i", "s", "t">>
      [] OTHER -> <<s>>

\* strconv.Quote, which the verbs %q and %#v apply to a string
RECURSIVE QuoteChars(_)
QuoteChars(cs) ==
    IF cs = <<>> THEN <<>>
    ELSE (CASE Head(cs) = "\"" -> <<"\\", "\"">>
            [] Head(cs) = "\\" -> <<"\\", "\\">>
            [] Head(cs) = "\n" -> <<"\\", "n">>
            [] Head(cs) = "\t" -> <<"\\", "t">>
            [] OTHER -> <<Head(cs)>>) \o QuoteChars(Tail(cs))

GoQuote(s) == <<"\"">> \o QuoteChars(Runes(s)) \o <<"\"">>

\* strings.Contains on character sequences
Contains(text, part) ==
    \E i \in 0..(Len(text) - Len(part)) :
        \A j \in 1..Len(part) : text[i + j] = part[j]

\* ------------------------------------------------------------------------
\* AST nodes
\* ------------------------------------------------------------------------

\* the position a node of a one-line expression carries
P0 == <<1, 1>>

Lit(v) == [kind |-> "Value", val |-> v]

Ident(name) == [kind |-> "Ident", name |-> name, pos |-> P0]

FieldAccess(val, field) == [kind |-> "FieldAccess", val |-> val, field |-> field, pos |-> P0]

Call(fn, args) == [kind |-> "Call", fn |-> fn, args |-> args, pos |-> P0]

Operation(type, left, right) ==
    [kind |-> "Operation", type |-> type, left |-> left, right |-> right, pos |-> P0]

Modifier(type, val) == [kind |-> "Modifier", type |-> type, val |-> val, pos |-> P0]

Subexpression(expr) == [kind |-> "Subexpression", expr |-> expr, pos |-> P0]

ArrayAccess(array, index) ==
    [kind |-> "ArrayAccess", array |-> array, index |-> index, pos |-> P0]

SliceAccess(array, low, high) ==
    [kind |-> "SliceAccess", array |-> array, low |-> low, high |-> high, pos |-> P0]

\* ------------------------------------------------------------------------
\* Evaluation results: values, error, and the state the evaluation left
\* (st.envs, st.heap, and st.calls, the callees invoked so far with their
\* argument lists)
\* ------------------------------------------------------------------------

Res(vals, err, st) == [vals |-> vals, err |-> err, st |-> st]

\* position.singleValue
singleValue(pos, results, err) ==
    IF Len(results) = 0 THEN [val |-> NilV, err |-> err]
    ELSE IF Len(results) = 1 THEN [val |-> results[1], err |-> err]
    ELSE [val |-> NilV,
          err |-> PosErr(pos, "ErrRuntime",
                         <<"multivalue result used in single value location">>)]

\* ------------------------------------------------------------------------
\* Host objects: MyType of the README (x) and TestStruct of the test (s)
\* ------------------------------------------------------------------------

\* parameter types of the host callables; a callable the table does not
\* know has no entry
Signature(f) ==
    CASE f = <<"x", "Set">> -> <<"int">>
      [] f = <<"x", "Get">> -> <<>>
      [] f = <<"s", "SetField1">> -> <<"int">>
      [] f = <<"s", "GetField1">> -> <<>>
      [] f = <<"s", "TestCall">> -> <<>>
      [] f = <<"", "try">> -> <<"int", "error">>

\* the pointer-receiver method sets
MethodSet(obj) ==
    CASE obj = "x" -> {"Set", "Get"}
      [] obj = "s" -> {"SetField1", "GetField1", "TestCall"}

\* the struct fields FieldByName finds
FieldSet(obj) ==
    CASE obj = "x" -> {"x"}
      [] obj = "s" -> {"Field1", "calls"}

\* the body of a host callable: results and the heap it leaves
HostBody(f, args, st) ==
    CASE f = <<"x", "Set">> ->
            Res(<<>>, NoErr, [st EXCEPT !.heap.x.x = args[1].v])
      [] f = <<"x", "Get">> ->
            Res(<<IntV(st.heap.x.x)>>, NoErr, st)
      [] f = <<"s", "SetField1">> ->
            Res(<<>>, NoErr, [st EXCEPT !.heap.s.Field1 = args[1].v])
      [] f = <<"s", "GetField1">> ->
            Res(<<IntV(st.heap.s.Field1)>>, NoErr, st)
      [] f = <<"s", "TestCall">> ->
            Res(<<IntV(st.heap.s.calls + 1), ErrorV("nil")>>, NoErr,
                [st EXCEPT !.heap.s.calls = @ + 1])
      [] f = <<"", "try">> ->
            IF args[2].v # "nil"
            THEN Res(<<>>, PanicErr(<<args[2].v>>), st)
            ELSE Res(<<args[1]>>, NoErr, st)

\* Type.AssignableTo for the types of the model
Assignable(v, t) == v.k = t

\* one more call in the log: the callee and the argument list Call.Run
\* hands it (lf.Func(args) or fn.Call(args))
Invoked(fn, args, st) == [st EXCEPT !.calls = Append(@, [fn |-> fn, args |-> args])]

\* reflect.Value.Call: panics unless fn is a func and the arguments fit
\* its parameters one to one
ReflectCall(fn, args, st) ==
    IF fn.k # "func"
    THEN Res(<<>>, PanicErr(<<"reflect: call of reflect.Value.Call on ", fn.k, " Value">>), st)
    ELSE IF Len(args) # Len(Signature(fn.v))
    THEN Res(<<>>, PanicErr(<<"reflect: Call with too ",
                              IF Len(args) < Len(Signature(fn.v)) THEN "few" ELSE "many",
                              " input arguments">>), st)
    ELSE IF \E i \in 1..Len(args) : args[i].k = "invalid"
    THEN Res(<<>>, PanicErr(<<"reflect: Call using zero Value argument">>), st)
    ELSE IF \E i \in 1..Len(args) : ~Assignable(args[i], Signature(fn.v)[i])
    THEN LET i == CHOOSE j \in 1..Len(args) :
                    /\ ~Assignable(args[j], Signature(fn.v)[j])
                    /\ \A h \in 1..(j - 1) : Assignable(args[h], Signature(fn.v)[h])
         IN Res(<<>>, PanicErr(<<"reflect: Call using ", args[i].k, " as type ",
                                 Signature(fn.v)[i]>>), st)
    ELSE HostBody(fn.v, args, st)

\* ------------------------------------------------------------------------
\* The standard environment and its native closures
\* ------------------------------------------------------------------------

\* a map write that keeps the value of a key already present
MapSetKeep(m, key, val) == [n \in (DOMAIN m) \cup {key} |-> IF n \in DOMAIN m THEN m[n] ELSE val]

\* env[key] = val on a Go map
MapSet(m, key, val) == [n \in (DOMAIN m) \cup {key} |-> IF n = key THEN val ELSE m[n]]

\* the first-stage check of $define without its existence test
lhsCheckNoDefineTest(env, mutate, arg) ==
    IF arg.k # "string" THEN PlainErr(<<"programmer error">>)
    ELSE IF mutate /\ arg.v \notin DOMAIN env
    THEN PlainErr(<<"variable ">> \o GoQuote(arg.v) \o <<" does not exist">>)
    ELSE NoErr

\* the first-stage check of $mutate without its existence test
lhsCheckNoMutateTest(env, mutate, arg) ==
    IF arg.k # "string" THEN PlainErr(<<"programmer error">>)
    ELSE IF ~mutate /\ arg.v \in DOMAIN env
    THEN PlainErr(<<"variable ">> \o GoQuote(arg.v) \o <<" already exists">>)
    ELSE NoErr

\* the check the first stage makes of one name; NoErr when it passes
lhsCheck(env, mutate, arg) ==
    IF arg.k # "string" THEN PlainErr(<<"programmer error">>)
    ELSE IF mutate
    THEN (IF arg.v \notin DOMAIN env
          THEN PlainErr(<<"variable ">> \o GoQuote(arg.v) \o <<" does not exist">>)
          ELSE NoErr)
    ELSE (IF arg.v \in DOMAIN env
          THEN PlainErr(<<"variable ">> \o GoQuote(arg.v) \o <<" already exists">>)
          ELSE NoErr)

\* the first stage of $define (mutate = FALSE) and $mutate (mutate = TRUE):
\* checks the names in order and returns the second-stage callable
assignment(owner, mutate, lhs, st) ==
    LET bad == {i \in 1..Len(lhs) : lhsCheck(st.envs[owner], mutate, lhs[i]) # NoErr}
    IN IF bad # {}
       THEN LET i == CHOOSE j \in bad : \A h \in bad : j <= h
            IN Res(<<>>, lhsCheck(st.envs[owner], mutate, lhs[i]), st)
       ELSE Res(<<LowerFunc(owner, "rhs", mutate, lhs)>>, NoErr, st)

\* the loop of the second stage: env[lhs[i]] = rhs[i] for i, i+1, ...
RECURSIVE bindAll(_, _, _, _)
bindAll(env, lhs, rhs, i) ==
    IF i > Len(lhs) THEN env
    ELSE bindAll(MapSet(env, lhs[i].v, rhs[i]), lhs, rhs, i + 1)

\* a second stage that binds as many names as it got values
rhsAssignPrefix(owner, lhs, rhs, st) ==
    LET m == IF Len(lhs) < Len(rhs) THEN Len(lhs) ELSE Len(rhs)
    IN Res(<<>>, NoErr, [st EXCEPT !.envs[owner] = bindAll(@, SubSeq(lhs, 1, m), rhs, 1)])

\* the second stage: binds every name to its value in the owner environment
rhsAssign(owner, lhs, rhs, st) ==
    IF Len(lhs) # Len(rhs)
    THEN Res(<<>>, PlainErr(<<"variable definition expected a variable for each value">>), st)
    ELSE Res(<<>>, NoErr, [st EXCEPT !.envs[owner] = bindAll(@, lhs, rhs, 1)])

\* the built-in len
lenBuiltin(args, st) ==
    IF Len(args) # 1 THEN Res(<<>>, PlainErr(<<"len expected 1 argument">>), st)
    ELSE IF args[1].k = "string" THEN Res(<<IntV(Len(Runes(args[1].v)))>>, NoErr, st)
    ELSE IF args[1].k = "slice" THEN Res(<<IntV(Len(args[1].v))>>, NoErr, st)
    ELSE Res(<<>>, PanicErr(<<"reflect: call of reflect.Value.Len on ", args[1].k, " Value">>), st)

\* lf.Func(args) for the closures NewStandardEnvironment makes
NativeCall(lf, args, st) ==
    CASE lf.fn = "$import" ->
            Res(<<>>, PlainErr(<<"import unsupported in this session">>), st)
      [] lf.fn = "assignment" -> assignment(lf.env, lf.mutate, args, st)
      [] lf.fn = "rhs" -> rhsAssign(lf.env, lf.lhs, args, st)
      [] lf.fn = "len" -> lenBuiltin(args, st)

\* the bindings NewStandardEnvironment makes for the environment id
NewStandardEnvironment(id) ==
    [n \in {"nil", "true", "false", "$import", "$define", "$mutate", "len"} |->
        CASE n = "nil" -> NilV
          [] n = "true" -> BoolV(TRUE)
          [] n = "false" -> BoolV(FALSE)
          [] n = "$import" -> LowerFunc(id, "$import", FALSE, <<>>)
          [] n = "$define" -> LowerFunc(id, "assignment", FALSE, <<>>)
          [] n = "$mutate" -> LowerFunc(id, "assignment", TRUE, <<>>)
          [] n = "len" -> LowerFunc(id, "len", FALSE, <<>>)]

\* ------------------------------------------------------------------------
\* Run: the evaluation of a node against the environment e
\* ------------------------------------------------------------------------

\* reflect.Value.Equal for the kinds of the model
ValueEqual(lv, rv) ==
    LET l == IF lv.k = "error" /\ lv.v = "nil" THEN NilV ELSE lv
        r == IF rv.k = "error" /\ rv.v = "nil" THEN NilV ELSE rv
    IN
    IF l.k = "invalid" \/ r.k = "invalid" THEN [ok |-> TRUE, eq |-> l.k = r.k]
    ELSE IF l.k # r.k THEN [ok |-> TRUE, eq |-> FALSE]
    ELSE IF l.k \in {"func", "lowerFunc", "lowerStruct"} THEN [ok |-> FALSE, eq |-> FALSE]
    ELSE [ok |-> TRUE, eq |-> l.v = r.v]

\* tryAccess of FieldAccess.Run: MethodByName, then FieldByName on a struct
tryAccess(v, field, st) ==
    CASE v.k = "ptr" ->
            IF field \in MethodSet(v.v)
            THEN [found |-> TRUE, vals |-> <<MethodV(v.v, field)>>]
            ELSE [found |-> FALSE, vals |-> <<>>]
      [] v.k = "struct" ->
            IF field \in FieldSet(v.v)
            THEN [found |-> TRUE, vals |-> <<IntV(st.heap[v.v][field])>>]
            ELSE [found |-> TRUE, vals |-> <<NilV>>]
      [] v.k \in {"lowerFunc", "lowerStruct"} ->
            \* a struct without methods; no field name of the model is Env,
            \* Func or Field, so FieldByName gives the zero Value
            [found |-> TRUE, vals |-> <<NilV>>]
      [] OTHER -> [found |-> FALSE, vals |-> <<>>]

\* a test that takes a handle for the evaluator's own when the tagged
\* environment has the contents of the current one
sameEnvironmentContents(tag, e, st) == st.envs[tag] = st.envs[e]

\* reflect.ValueOf(h.Env).Pointer() == reflect.ValueOf(env).Pointer(): the
\* tagged environment is the very map the expression is evaluated against
sameEnvironment(tag, e, st) == tag = e

\* the part of FieldAccess.Run after the target is a single value
fieldOf(pos, v, field, e, st) ==
    IF v.k = "lowerStruct" /\ sameEnvironment(v.v.env, e, st)
    THEN (IF field \in DOMAIN v.v.sub
          THEN Res(<<v.v.sub[field]>>, NoErr, st)
          ELSE Res(<<>>, [type |-> "ErrTypeMismatch", pos |-> NoPos,
                          msg |-> <<"field ">> \o GoQuote(field)
                                  \o <<" in LowerStruct not found">>], st))
    ELSE IF v.k = "invalid" \/ (v.k = "error" /\ v.v = "nil")
    THEN Res(<<>>, PanicErr(<<"reflect: call of reflect.Value.MethodByName on zero Value">>), st)
    ELSE IF tryAccess(v, field, st).found
    THEN Res(tryAccess(v, field, st).vals, NoErr, st)
    ELSE IF v.k = "ptr" /\ tryAccess(StructV(v.v), field, st).found
    THEN Res(tryAccess(StructV(v.v), field, st).vals, NoErr, st)
    ELSE Res(<<>>, PosErr(pos, "ErrTypeMismatch",
                          <<"tried to access field ">> \o GoQuote(field)), st)

\* the dispatch of Call.Run once callee and arguments are known
dispatch(fn, args, e, st) ==
    IF fn.k = "lowerFunc" /\ sameEnvironment(fn.v.env, e, st)
    THEN NativeCall(fn.v, args, Invoked(fn, args, st))
    ELSE ReflectCall(fn, args, Invoked(fn, args, st))

\* an Ident.Run that reads the map without the presence test
identRunZero(name, e, st) ==
    IF name \in DOMAIN st.envs[e]
    THEN Res(<<st.envs[e][name]>>, NoErr, st)
    ELSE Res(<<NilV>>, NoErr, st)

\* Ident.Run
identRun(name, e, st) ==
    IF name \in DOMAIN st.envs[e]
    THEN Res(<<st.envs[e][name]>>, NoErr, st)
    ELSE Res(<<>>, [type |-> "ErrUnboundVar", pos |-> NoPos, msg |-> GoQuote(name)], st)

\* an Operation.Run that always evaluates the right operand
shortCircuitNever(type, left) == FALSE

\* the short-circuit tests of Operation.Run: !left.Bool() for &&,
\* left.Bool() for ||
shortCircuit(type, left) == left.v = (type = "||")

\* an Operation.Run whose switch gives + a result
unknownOpButAdd(pos, type, left, st) ==
    IF type = "+" THEN Res(<<left>>, NoErr, st)
    ELSE Res(<<>>, PosErr(pos, "ErrUnknownOp", GoQuote(type)), st)

\* what Operation.Run does for the operators its switch has no body for
unknownOp(pos, type, left, st) == Res(<<>>, PosErr(pos, "ErrUnknownOp", GoQuote(type)), st)

\* Call.Run without the special case: every argument is a single value
spreadsNever(i, nargs) == FALSE

\* the test of Call.Run for the one argument expression whose values
\* become the whole argument list
spreads(i, nargs) == i = 1 /\ nargs = 1

\* Value.CanInt
CanInt(v) == v.k \in {"int", "int64"}

\* the part of ArrayAccess.Run after target and index are single values
indexOf(pos, v, index, st) ==
    IF v.k = "slice"
    THEN (IF ~CanInt(index)
          THEN Res(<<>>, PosErr(pos, "ErrTypeMismatch", <<"index is not an int">>), st)
          ELSE IF index.v < 0 \/ index.v >= Len(v.v)
          THEN Res(<<>>, PanicErr(<<"reflect: slice index out of range">>), st)
          ELSE Res(<<IntV(v.v[index.v + 1])>>, NoErr, st))
    ELSE Res(<<>>, PosErr(pos, "ErrTypeMismatch", <<"tried to access index on value">>), st)

\* the part of SliceAccess.Run after target and both bounds are single
\* values: the kind switch, the CanInt tests and Value.Slice
sliceOf(pos, v, l, h, st) ==
    IF v.k # "slice"
    THEN Res(<<>>, PosErr(pos, "ErrTypeMismatch", <<"tried to slice value">>), st)
    ELSE IF ~CanInt(l) \/ ~CanInt(h)
    THEN Res(<<>>, PosErr(pos, "ErrTypeMismatch", <<"slice index not an int">>), st)
    ELSE IF l.v < 0 \/ h.v > Len(v.v) \/ l.v > h.v
    THEN Res(<<>>, PanicErr(<<"reflect.Value.Slice: slice index out of bounds">>), st)
    ELSE Res(<<SliceV(SubSeq(v.v, l.v + 1, h.v))>>, NoErr, st)

\* a SliceAccess.Run that takes its upper bound from High
upperBoundHigh(n) == n.high

\* the expression SliceAccess.Run evaluates for its upper bound h
upperBound(n) == n.low

RECURSIVE Run(_, _, _), runArgs(_, _, _, _, _)

\* the argument loop of Call.Run from argument i on, acc the values so far
runArgs(c, i, acc, e, st) ==
    IF i > Len(c.args) THEN Res(acc, NoErr, st)
    ELSE LET r == Run(c.args[i], e, st)
         IN IF r.err # NoErr THEN Res(<<>>, r.err, r.st)
            ELSE IF spreads(i, Len(c.args)) THEN Res(r.vals, NoErr, r.st)
            ELSE LET a == singleValue(c.pos, r.vals, NoErr)
                 IN IF a.err # NoErr THEN Res(<<>>, a.err, r.st)
                    ELSE runArgs(c, i + 1, Append(acc, a.val), e, r.st)

Run(n, e, st) ==
    CASE n.kind = "Value" -> Res(<<n.val>>, NoErr, st)
      [] n.kind = "nil" ->
            \* a method call on a nil Evaluable
            Res(<<>>, PanicErr(<<"runtime error: invalid memory address or nil pointer dereference">>), st)
      [] n.kind = "Ident" -> identRun(n.name, e, st)
      [] n.kind = "Subexpression" -> Run(n.expr, e, st)
      [] n.kind = "FieldAccess" ->
            LET r == Run(n.val, e, st)
                v == singleValue(n.pos, r.vals, r.err)
            IN IF v.err # NoErr THEN Res(<<>>, v.err, r.st)
               ELSE fieldOf(n.pos, v.val, n.field, e, r.st)
      [] n.kind = "Call" ->
            LET r == Run(n.fn, e, st)
                fn == singleValue(n.pos, r.vals, r.err)
            IN IF fn.err # NoErr THEN Res(<<>>, fn.err, r.st)
               ELSE LET a == runArgs(n, 1, <<>>, e, r.st)
                    IN IF a.err # NoErr THEN Res(<<>>, a.err, a.st)
                       ELSE dispatch(fn.val, a.vals, e, a.st)
      [] n.kind = "Operation" ->
            LET r == Run(n.left, e, st)
                left == singleValue(n.pos, r.vals, r.err)
            IN IF left.err # NoErr THEN Res(<<>>, left.err, r.st)
               ELSE IF n.type \in {"==", "!="}
               THEN LET q == Run(n.right, e, r.st)
                        right == singleValue(n.pos, q.vals, q.err)
                    IN IF right.err # NoErr THEN Res(<<>>, right.err, q.st)
                       ELSE IF ~ValueEqual(left.val, right.val).ok
                       THEN Res(<<>>, PanicErr(<<"reflect.Value.Equal: values are not comparable">>), q.st)
                       ELSE Res(<<BoolV(ValueEqual(left.val, right.val).eq = (n.type = "=="))>>,
                                NoErr, q.st)
               ELSE IF n.type \in {"&&", "||"}
               THEN IF left.val.k # "bool"
                    THEN Res(<<>>, PanicErr(<<"reflect: call of reflect.Value.Bool on ",
                                              left.val.k, " Value">>), r.st)
                    ELSE IF shortCircuit(n.type, left.val)
                    THEN Res(<<left.val>>, NoErr, r.st)
                    ELSE LET q == Run(n.right, e, r.st)
                             rv == singleValue(n.pos, q.vals, q.err)
                         IN IF rv.err # NoErr THEN Res(<<>>, rv.err, q.st)
                            ELSE Res(<<rv.val>>, NoErr, q.st)
               ELSE unknownOp(n.pos, n.type, left.val, r.st)
      [] n.kind = "ArrayAccess" ->
            LET r == Run(n.array, e, st)
                v == singleValue(n.pos, r.vals, r.err)
            IN IF v.err # NoErr THEN Res(<<>>, v.err, r.st)
               ELSE LET q == Run(n.index, e, r.st)
                        index == singleValue(n.pos, q.vals, q.err)
                    IN IF index.err # NoErr THEN Res(<<>>, index.err, q.st)
                       ELSE indexOf(n.pos, v.val, index.val, q.st)
      [] n.kind = "SliceAccess" ->
            LET r == Run(n.array, e, st)
                v == singleValue(n.pos, r.vals, r.err)
            IN IF v.err # NoErr THEN Res(<<>>, v.err, r.st)
               ELSE LET q == Run(n.low, e, r.st)
                        l == singleValue(n.pos, q.vals, q.err)
                    IN IF l.err # NoErr THEN Res(<<>>, l.err, q.st)
                       ELSE LET p == Run(upperBound(n), e, q.st)
                                h == singleValue(n.pos, p.vals, p.err)
                            IN IF h.err # NoErr THEN Res(<<>>, h.err, p.st)
                               ELSE sliceOf(n.pos, v.val, l.val, h.val, p.st)
      [] n.kind = "Modifier" ->
            LET r == Run(n.val, e, st)
                val == singleValue(n.pos, r.vals, r.err)
            IN IF val.err # NoErr THEN Res(<<>>, val.err, r.st)
               ELSE IF n.type = "!" /\ val.val.k = "bool"
               THEN Res(<<BoolV(~val.val.v)>>, NoErr, r.st)
               ELSE IF n.type = "&"
               THEN (IF val.val.k = "struct" THEN Res(<<PtrV(val.val.v)>>, NoErr, r.st)
                     ELSE Res(<<>>, PanicErr(<<"reflect.Value.Addr of unaddressable value">>), r.st))
               ELSE IF n.type = "*"
               THEN (IF val.val.k = "ptr" THEN Res(<<StructV(val.val.v)>>, NoErr, r.st)
                     ELSE Res(<<>>, PanicErr(<<"reflect: call of reflect.Value.Elem on ",
                                               val.val.k, " Value">>), r.st))
               ELSE Res(<<>>, PosErr(n.pos, "ErrUnknownOp", GoQuote(n.type)), r.st)

\* ------------------------------------------------------------------------
\* State and actions
\* ------------------------------------------------------------------------

\* the environments of the model, by identity
EnvIds == {1, 2}

\* the host's bindings: x of the README, s and try of the package test,
\* arr, a slice of five ints for the index and slice expressions, and
\* boom, a non-nil error for try to panic with
HostBindings ==
    [n \in {"x", "s", "try", "arr", "boom"} |->
        CASE n = "x" -> PtrV("x")
          [] n = "s" -> PtrV("s")
          [] n = "try" -> FuncV("try")
          [] n = "arr" -> SliceV(<<10, 11, 12, 13, 14>>)
          [] n = "boom" -> ErrorV("boom")]

\* the state before any evaluation
InitState ==
    [envs |-> [id \in EnvIds |->
                 [n \in (DOMAIN NewStandardEnvironment(id)) \cup (DOMAIN HostBindings) |->
                    IF n \in DOMAIN HostBindings THEN HostBindings[n]
                    ELSE NewStandardEnvironment(id)[n]]],
     heap |-> [x |-> [x |-> 0], s |-> [Field1 |-> 0, calls |-> 0]]]

\* no input text, and the outcome of no parse
NoInput == [source |-> <<>>, order |-> "written"]

NotParsed == [done |-> FALSE, node |-> [kind |-> "nil"], err |-> NoErr, offset |-> 0]

\* a map without entries
EmptyMap == [n \in {} |-> 0]

SessionIds == 1..MaxSessions

\* a session that has not started: Interact has not been called (at: the
\* number of calls on the registry that had returned when the session took
\* its copy; log: the lines it gave to the interpreter, with their errors)
NoSession ==
    [pc |-> "idle", at |-> 0, snap |-> EmptyMap, names |-> <<>>, e |-> 0, eof |-> FALSE,
     log |-> <<>>,
     in |-> [lines |-> <<>>, last |-> <<>>, end |-> "EOF"], out |-> <<>>, outLeft |-> 0,
     ret |-> "none"]

\* the session layer before any call: the zero Crawlspace (registrations
\* is a nil map), no session, no interpreter environment, Serve not called
InitShell ==
    /\ registrations = [made |-> FALSE, entries |-> EmptyMap]
    /\ sessions = [s \in SessionIds |-> NoSession]
    /\ shells = [s \in SessionIds |-> EmptyMap]
    /\ listener = [pc |-> "idle", delay |-> 0, slept |-> <<>>, conns |-> 0]
    /\ calls = <<>>

Init ==
    /\ InitShell
    /\ envs = InitState.envs
    /\ heap = InitState.heap
    /\ hist = <<>>
    /\ input = NoInput
    /\ parsed = NotParsed

\* an Eval without the deferred function: a panic reaches the caller
recoveredNot(err) == [err |-> err, panics |-> err.type = "panic"]

\* the deferred function of Eval: recover() turns a panic into the error
\* "panic: ..." and the call returns normally
recovered(err) ==
    [err |-> IF err.type = "panic" THEN PlainErr(<<"panic: ">> \o err.msg) ELSE err,
     panics |-> FALSE]

\* Eval, from the parsed tree on: runs n against environment e. A caller
\* that a panic reached is unwinding and evaluates nothing more.
Eval(e, n) ==
    /\ Len(hist) < MaxSteps
    /\ \A j \in 1..Len(hist) : ~hist[j].panics
    /\ LET r == Run(n, e, [envs |-> envs, heap |-> heap, calls |-> <<>>])
       IN /\ envs' = r.st.envs
          /\ heap' = r.st.heap
          /\ hist' = Append(hist, [env |-> e, expr |-> n, vals |-> r.vals,
                                   err |-> recovered(r.err).err,
                                   panics |-> recovered(r.err).panics,
                                   calls |-> r.st.calls,
                                   post |-> [envs |-> r.st.envs, heap |-> r.st.heap]])
    /\ UNCHANGED <<input, parsed>>
    /\ UNCHANGED shellVars

\* the state evaluation i started from
Pre(i) == IF i = 1 THEN InitState ELSE hist[i - 1].post

\* Pre(i) as an argument of Run
PreSt(i) == [envs |-> Pre(i).envs, heap |-> Pre(i).heap, calls |-> <<>>]

\* ------------------------------------------------------------------------
\* Expressions about the host objects
\* ------------------------------------------------------------------------

\* obj.name(args)
MethodCall(obj, name, args) == Call(FieldAccess(Ident(obj), name), args)

\* x.Set(5), the README session; 5 parses to an int64
xSet5 == MethodCall("x", "Set", <<Lit(Int64V(5))>>)

\* x.Get()
xGet == MethodCall("x", "Get", <<>>)

\* s.TestCall()
sTestCall == MethodCall("s", "TestCall", <<>>)

\* try(s.TestCall())
tryTestCall == Call(Ident("try"), <<sTestCall>>)

\* s.SetField1(try(s.TestCall()))
sSetTry == MethodCall("s", "SetField1", <<tryTestCall>>)

\* s.GetField1()
sGetField1 == MethodCall("s", "GetField1", <<>>)

\* x.Set(try(s.TestCall()))
xSetTry == MethodCall("x", "Set", <<tryTestCall>>)

\* x.Get(x.Set(try(s.TestCall()))): the one argument yields no value
xGetOfSet == MethodCall("x", "Get", <<xSetTry>>)

\* x.Get(s.TestCall()): two values for a callee without parameters
xGetOfTestCall == MethodCall("x", "Get", <<sTestCall>>)

\* $define("a", "b")(s.TestCall()): two values for a native callee
defineABTestCall ==
    Call(Call(Ident("$define"), <<Lit(StrV("a")), Lit(StrV("b"))>>), <<sTestCall>>)

\* try(s.TestCall(), nil): two argument expressions, the first of two values
tryTwoArgs == Call(Ident("try"), <<sTestCall, Ident("nil")>>)

\* try(s.GetField1(), boom): the host function panics with boom
tryBoom == Call(Ident("try"), <<sGetField1, Ident("boom")>>)

HostExprs ==
    {xSet5, xGet, sTestCall, tryTestCall, sSetTry, sGetField1, xSetTry, xGetOfSet,
     xGetOfTestCall, defineABTestCall, tryTwoArgs, tryBoom, Ident("a"), Ident("b")}

NextHost == \E n \in HostExprs : Eval(1, n)

SpecHost == Init /\ [][NextHost]_vars

\* ------------------------------------------------------------------------
\* Claims about the host objects
\* ------------------------------------------------------------------------

\* C1 (as claimed): with x bound to the README's MyType, whose Get
\* initially returns 0, evaluating x.Set(5) and then x.Get() against the
\* same environment yields 5
C1_SetThenGet ==
    \A i \in 1..(Len(hist) - 1) :
        (hist[i].expr = xSet5 /\ hist[i + 1].expr = xGet /\ hist[i].env = hist[i + 1].env)
        => (Len(hist[i + 1].vals) = 1 /\ hist[i + 1].vals[1].v = 5)

\* the last element of a non-empty sequence
Last(q) == q[Len(q)]

\* C10: in a call with exactly one argument expression, once the callee
\* and the argument expression have been evaluated without error, the
\* callee is called with exactly the values the argument expression
\* yielded, all of them and in order, whatever their number
C10_SpreadArguments ==
    \A i \in 1..Len(hist) :
        LET n == hist[i].expr
            e == hist[i].env
        IN (n.kind = "Call" /\ Len(n.args) = 1) =>
              LET f == Run(n.fn, e, PreSt(i))
                  a == Run(n.args[1], e, f.st)
              IN (f.err = NoErr /\ Len(f.vals) <= 1 /\ a.err = NoErr) =>
                    /\ hist[i].calls # <<>>
                    /\ Last(hist[i].calls) =
                          [fn |-> singleValue(n.pos, f.vals, f.err).val, args |-> a.vals]
                    /\ Len(hist[i].calls) = Len(a.st.calls) + 1

\* C10 witness: one behaviour has spread two values into try, two values
\* into a native callee, and no value into x.Get
C10_Witness ==
    /\ \E i \in 1..Len(hist) :
          /\ hist[i].expr = tryTestCall
          /\ hist[i].err = NoErr
          /\ Len(Last(hist[i].calls).args) = 2
    /\ \E i \in 1..Len(hist) :
          /\ hist[i].expr = xGetOfSet
          /\ hist[i].err = NoErr
          /\ Last(hist[i].calls).args = <<>>
    /\ \E i \in 1..Len(hist) :
          /\ hist[i].expr = defineABTestCall
          /\ hist[i].err = NoErr
          /\ Len(Last(hist[i].calls).args) = 2

\* C12: no evaluation lets a panic reach its caller: when running the
\* tree panics (in a host callable or inside reflection), Eval returns
\* no value and a non-nil error that reports the panic, and the caller
\* can go on with further evaluations
C12_PanicRecovered ==
    /\ \A i \in 1..Len(hist) :
          /\ ~hist[i].panics
          /\ Run(hist[i].expr, hist[i].env, PreSt(i)).err.type = "panic" =>
                /\ hist[i].err # NoErr
                /\ hist[i].err.type = "error"
                /\ SubSeq(hist[i].err.msg, 1, 1) = <<"panic: ">>
                /\ hist[i].vals = <<>>
    /\ Len(hist) < MaxSteps => ENABLED NextHost

\* C12 witness: a panic of the host function try and a panic of
\* reflect.Value.Call were both returned as errors, and an evaluation
\* after them succeeded
C12_Witness ==
    \E i, j, k \in 1..Len(hist) :
        /\ i < k /\ j < k
        /\ hist[i].expr = tryBoom
        /\ hist[i].err = PlainErr(<<"panic: ", "boom">>)
        /\ hist[j].expr = xSet5
        /\ hist[j].err.msg[1] = "panic: "
        /\ hist[k].expr = xGet
        /\ hist[k].err = NoErr

\* ------------------------------------------------------------------------
\* Expressions about the binding operators
\* ------------------------------------------------------------------------

\* the literals of a list of names or of integers
StrLits(names) == [i \in 1..Len(names) |-> Lit(StrV(names[i]))]

IntLits(ints) == [i \in 1..Len(ints) |-> Lit(Int64V(ints[i]))]

\* op(names...): the first stage alone
Stage1(op, names) == Call(Ident(op), StrLits(names))

\* op(names...)(ints...): both stages
Stage2(op, names, ints) == Call(Stage1(op, names), IntLits(ints))

BindExprs ==
    {Stage2("$define", <<"a">>, <<1>>),
     Stage2("$define", <<"a">>, <<2>>),
     Stage2("$mutate", <<"a">>, <<2>>),
     Stage2("$mutate", <<"a">>, <<3>>),
     Stage2("$mutate", <<"b">>, <<2>>),
     Stage1("$mutate", <<"b">>),
     Stage1("$mutate", <<"a", "b">>),
     Stage1("$define", <<"a", "a">>),
     Stage2("$define", <<"a", "a">>, <<1, 2>>),
     Stage2("$define", <<"a", "b">>, <<1, 2>>),
     Stage2("$define", <<"a">>, <<1, 2>>),
     Stage2("$define", <<"a", "b">>, <<1>>),
     Stage2("$define", <<"b">>, <<>>),
     Stage2("$mutate", <<"a">>, <<1, 2>>),
     Stage2("$define", <<"q\"">>, <<1>>),
     Ident("a"),
     Ident("b")}

\* what a second environment evaluates meanwhile
OtherEnvExprs == {Stage2("$define", <<"a">>, <<1>>), Ident("a")}

NextBind ==
    \/ \E n \in BindExprs : Eval(1, n)
    \/ \E n \in OtherEnvExprs : Eval(2, n)

SpecBind == Init /\ [][NextBind]_vars

\* ------------------------------------------------------------------------
\* Claims about the binding operators
\* ------------------------------------------------------------------------

\* the call records of evaluation i that are second-stage calls
SecondStageCalls(i) ==
    {c \in {hist[i].calls[h] : h \in 1..Len(hist[i].calls)} :
        c.fn.k = "lowerFunc" /\ c.fn.v.fn = "rhs"}

\* evaluation i left environments and heap as it found them
Unchanged(i) == hist[i].post = Pre(i)

\* an earlier evaluation than j defined a in the same environment
DefinedA(j) ==
    \E i \in 1..(j - 1) :
        /\ hist[i].expr = Stage2("$define", <<"a">>, <<1>>)
        /\ hist[i].env = hist[j].env
        /\ hist[i].err = NoErr

\* C2: after define("a")(1) has succeeded, define("a")(2) on the same
\* environment fails with "variable already exists" at its first-stage
\* call (no second stage is called), and no binding changes; when it
\* follows the successful definition directly, a is still 1
C2_DefineTwiceFails ==
    \A j \in 1..Len(hist) :
        (hist[j].expr = Stage2("$define", <<"a">>, <<2>>) /\ DefinedA(j)) =>
            /\ hist[j].err = PlainErr(<<"variable ">> \o GoQuote("a") \o <<" already exists">>)
            /\ hist[j].vals = <<>>
            /\ SecondStageCalls(j) = {}
            /\ Unchanged(j)
            /\ (/\ hist[j - 1].expr = Stage2("$define", <<"a">>, <<1>>)
                /\ hist[j - 1].env = hist[j].env
                /\ hist[j - 1].err = NoErr)
               => hist[j].post.envs[hist[j].env]["a"] = Int64V(1)

\* C2 witness: define("a")(2) was evaluated right after define("a")(1)
\* succeeded
C2_Witness ==
    \E j \in 2..Len(hist) :
        /\ hist[j].expr = Stage2("$define", <<"a">>, <<2>>)
        /\ hist[j - 1].expr = Stage2("$define", <<"a">>, <<1>>)
        /\ hist[j - 1].err = NoErr

\* evaluation m made a second-stage call that binds name
Rebinds(m, name) ==
    \E c \in SecondStageCalls(m) :
        /\ Len(c.args) = Len(c.fn.v.lhs)
        /\ \E h \in 1..Len(c.fn.v.lhs) : c.fn.v.lhs[h].v = name

\* C3: after define("a")(1) has succeeded, mutate("a")(v) succeeds and
\* returns no values, changes the binding of a to v and nothing else, and
\* every later lookup of a in that environment yields v as long as no
\* evaluation in between has bound a again
C3_MutateRebinds ==
    \A j \in 1..Len(hist) : \A v \in {2, 3} :
        (hist[j].expr = Stage2("$mutate", <<"a">>, <<v>>) /\ DefinedA(j)) =>
            /\ hist[j].err = NoErr
            /\ hist[j].vals = <<>>
            /\ hist[j].post.heap = Pre(j).heap
            /\ hist[j].post.envs =
                  [Pre(j).envs EXCEPT ![hist[j].env] = MapSet(@, "a", Int64V(v))]
            /\ \A k \in (j + 1)..Len(hist) :
                  (/\ hist[k].expr = Ident("a")
                   /\ hist[k].env = hist[j].env
                   /\ \A m \in (j + 1)..(k - 1) : ~Rebinds(m, "a"))
                  => (hist[k].vals = <<Int64V(v)>> /\ hist[k].err = NoErr)

\* C3 witness: define("a")(1), mutate("a")(2), then a lookup of a
C3_Witness ==
    /\ Len(hist) = 3
    /\ hist[1].expr = Stage2("$define", <<"a">>, <<1>>)
    /\ hist[1].err = NoErr
    /\ hist[2].expr = Stage2("$mutate", <<"a">>, <<2>>)
    /\ hist[3].expr = Ident("a")

\* the names a first-stage call node supplies
Names(n) == [h \in 1..Len(n.args) |-> n.args[h].val.v]

\* the first-stage call node of a one- or two-stage expression of op
FirstStage(n, op) ==
    IF n.kind = "Call" /\ n.fn = Ident(op) THEN {n}
    ELSE IF n.kind = "Call" /\ n.fn.kind = "Call" /\ n.fn.fn = Ident(op) THEN {n.fn}
    ELSE {}

\* C4: the first-stage call of mutate fails with a "does not exist" error
\* for the first supplied name that is not bound, returns no second-stage
\* callable (none is returned, none is called), and changes nothing
C4_MutateUnboundFails ==
    \A j \in 1..Len(hist) : \A n \in FirstStage(hist[j].expr, "$mutate") :
        LET env == Pre(j).envs[hist[j].env]
            unbound == {h \in 1..Len(n.args) : Names(n)[h] \notin DOMAIN env}
        IN unbound # {} =>
              LET h == CHOOSE h \in unbound : \A g \in unbound : h <= g
              IN /\ hist[j].err =
                       PlainErr(<<"variable ">> \o GoQuote(Names(n)[h]) \o <<" does not exist">>)
                 /\ hist[j].vals = <<>>
                 /\ SecondStageCalls(j) = {}
                 /\ Unchanged(j)

\* C4 witness: mutate("a", "b") was evaluated with a bound and b not, and
\* mutate("b")(2) with b not bound
C4_Witness ==
    /\ \E j \in 1..Len(hist) :
          /\ hist[j].expr = Stage1("$mutate", <<"a", "b">>)
          /\ "a" \in DOMAIN Pre(j).envs[hist[j].env]
          /\ "b" \notin DOMAIN Pre(j).envs[hist[j].env]
    /\ \E j \in 1..Len(hist) :
          /\ hist[j].expr = Stage2("$mutate", <<"b">>, <<2>>)
          /\ "b" \notin DOMAIN Pre(j).envs[hist[j].env]

\* C5: a second-stage callable of define or mutate that is called with a
\* number of values different from the number of names returns an error
\* and binds nothing
C5_ArityMismatch ==
    \A j \in 1..Len(hist) :
        (\E c \in SecondStageCalls(j) : Len(c.args) # Len(c.fn.v.lhs)) =>
            /\ hist[j].err =
                  PlainErr(<<"variable definition expected a variable for each value">>)
            /\ hist[j].vals = <<>>
            /\ Unchanged(j)

\* C5 witness: a second stage of mutate was called with too many values,
\* and one of define with too few
C5_Witness ==
    /\ \E j \in 1..Len(hist) : \E c \in SecondStageCalls(j) :
          c.fn.v.mutate /\ Len(c.args) > Len(c.fn.v.lhs)
    /\ \E j \in 1..Len(hist) : \E c \in SecondStageCalls(j) :
          ~c.fn.v.mutate /\ Len(c.args) < Len(c.fn.v.lhs)

\* C6 (as claimed): the first-stage call define("a", "a"), whose name list
\* holds the same name twice, fails
C6_DuplicateNamesFail ==
    \A j \in 1..Len(hist) :
        hist[j].expr = Stage1("$define", <<"a", "a">>) => hist[j].err # NoErr

\* ------------------------------------------------------------------------
\* Expressions about identifiers and the binary operators
\* ------------------------------------------------------------------------

\* the operators Operation.Run has no body for
ArithOps == {"+", "-", "*", "/", "<", "<=", ">", ">="}

One == Lit(Int64V(1))

OpExprs ==
    {Ident("doesNotExist"), Ident("nope"), Ident("a"), Ident("x"),
     Stage2("$define", <<"a">>, <<1>>)}
    \cup {Operation(op, One, One) : op \in ArithOps}
    \cup {Operation("*", xGet, Ident("doesNotExist")),
          Operation("<", One, sTestCall),
          Operation("/", xSetTry, One),
          Operation("-", sTestCall, One),
          Operation("<=", Ident("doesNotExist"), One),
          Operation(">=", Lit(StrV("a")), Ident("a")),
          Operation("+", Ident("a"), Ident("a"))}

NextOps == \E n \in OpExprs : Eval(1, n)

SpecOps == Init /\ [][NextOps]_vars

\* try(s.TestCall()) == 1: a single value, with the side effect of TestCall
Effect == Operation("==", tryTestCall, One)

\* try(s.TestCall()) != try(s.TestCall()): true, with two side effects
TrueWithEffects == Operation("!=", tryTestCall, tryTestCall)

\* x.Get() != x.Get(): false
FalseComputed == Operation("!=", xGet, xGet)

LogicExprs ==
    {Operation("&&", Ident("false"), Effect),
     Operation("&&", Ident("true"), Effect),
     Operation("||", Ident("true"), Effect),
     Operation("||", Ident("false"), Effect),
     Operation("&&", FalseComputed, xSetTry),
     Operation("||", TrueWithEffects, sSetTry),
     Operation("&&", TrueWithEffects, sSetTry),
     Operation("||", Subexpression(Ident("true")), Ident("doesNotExist")),
     Operation("&&", Modifier("!", Ident("true")), sTestCall),
     Operation("&&", One, Effect),
     Operation("||", Ident("nil"), Effect),
     Operation("&&", Ident("true"), sTestCall),
     xGet, sGetField1}

NextLogic == \E n \in LogicExprs : Eval(1, n)

SpecLogic == Init /\ [][NextLogic]_vars

\* ------------------------------------------------------------------------
\* Claims about identifiers and the binary operators
\* ------------------------------------------------------------------------

\* C7: evaluating an identifier that is not a key of the environment
\* returns no value and fails with ErrUnboundVar, with a message that
\* contains the identifier's text
C7_UnboundIdent ==
    \A j \in 1..Len(hist) :
        LET n == hist[j].expr
        IN (n.kind = "Ident" /\ n.name \notin DOMAIN Pre(j).envs[hist[j].env]) =>
              /\ hist[j].vals = <<>>
              /\ hist[j].err.type = "ErrUnboundVar"
              /\ Contains(hist[j].err.msg, Runes(n.name))
              /\ Unchanged(j)

\* C7 witness: doesNotExist was looked up, and a before it was defined
C7_Witness ==
    /\ \E j \in 1..Len(hist) : hist[j].expr = Ident("doesNotExist")
    /\ \E j \in 1..Len(hist) :
          hist[j].expr = Ident("a") /\ "a" \notin DOMAIN Pre(j).envs[hist[j].env]

\* C8: a binary operation with one of + - * / < <= > >= whose left operand
\* evaluates to a single value returns no value and fails with
\* ErrUnknownOp, whatever the right operand is
C8_ArithmeticUnknown ==
    \A j \in 1..Len(hist) :
        LET n == hist[j].expr
        IN (n.kind = "Operation" /\ n.type \in ArithOps) =>
              LET l == Run(n.left, hist[j].env, PreSt(j))
              IN (l.err = NoErr /\ Len(l.vals) = 1) =>
                    /\ hist[j].vals = <<>>
                    /\ hist[j].err.type = "ErrUnknownOp"

\* C8 witness: 1 + 1 was evaluated, and a product whose right operand is
\* not bound
C8_Witness ==
    /\ \E j \in 1..Len(hist) : hist[j].expr = Operation("+", One, One)
    /\ \E j \in 1..Len(hist) :
          hist[j].expr = Operation("*", xGet, Ident("doesNotExist"))

\* C9: when the left operand of && evaluates to false, or that of || to
\* true, the operation does exactly what evaluating the left operand alone
\* does: same calls, same state, and the left operand's value as result
C9_ShortCircuit ==
    \A j \in 1..Len(hist) :
        LET n == hist[j].expr
        IN (n.kind = "Operation" /\ n.type \in {"&&", "||"}) =>
              LET l == Run(n.left, hist[j].env, PreSt(j))
              IN (l.err = NoErr /\ l.vals = <<BoolV(n.type = "||")>>) =>
                    /\ hist[j].vals = l.vals
                    /\ hist[j].err = NoErr
                    /\ hist[j].calls = l.st.calls
                    /\ hist[j].post = [envs |-> l.st.envs, heap |-> l.st.heap]

\* C9 witness: false && R and true || R were evaluated with an R that
\* calls TestCall, and an || whose left operand has effects of its own
C9_Witness ==
    /\ \E j \in 1..Len(hist) : hist[j].expr = Operation("&&", Ident("false"), Effect)
    /\ \E j \in 1..Len(hist) : hist[j].expr = Operation("||", Ident("true"), Effect)
    /\ \E j \in 1..Len(hist) :
          /\ hist[j].expr = Operation("||", TrueWithEffects, sSetTry)
          /\ hist[j].vals = <<BoolV(TRUE)>>

\* ------------------------------------------------------------------------
\* Expressions with a result of two values in a single-value position
\* ------------------------------------------------------------------------

\* s.TestCall() as callee, as target of a field, index and slice access,
\* as index, as slice bound, as operand and as one of two arguments, next
\* to expressions whose sub-expressions all yield one value
SingleExprs ==
    {Call(sTestCall, <<>>),
     FieldAccess(sTestCall, "Field1"),
     ArrayAccess(sTestCall, Lit(Int64V(1))),
     SliceAccess(sTestCall, Lit(Int64V(1)), Lit(Int64V(3))),
     ArrayAccess(Ident("arr"), sTestCall),
     SliceAccess(Ident("arr"), sTestCall, Lit(Int64V(3))),
     SliceAccess(Ident("arr"), Lit(Int64V(1)), sTestCall),
     Operation("==", sTestCall, Lit(Int64V(1))),
     Operation("==", Lit(Int64V(1)), sTestCall),
     Operation("&&", Ident("true"), sTestCall),
     Operation("+", sTestCall, Lit(Int64V(1))),
     Modifier("!", sTestCall),
     Call(Ident("try"), <<tryTestCall, sTestCall>>),
     tryTwoArgs,
     tryTestCall,
     ArrayAccess(Ident("arr"), tryTestCall),
     sGetField1}

NextSingle == \E n \in SingleExprs : Eval(1, n)

SpecSingle == Init /\ [][NextSingle]_vars

\* the sub-expressions of n that stand in a single-value position, in the
\* order of their evaluation: callee and (of two or more) arguments of a
\* call, target of a field access, target and index, target and bounds,
\* operand of a modifier, and the operands of an operation (the right one
\* of == and != only, as && and || may skip it and the other operators
\* have no implementation)
SinglePositions(n) ==
    CASE n.kind = "Call" -> <<n.fn>> \o (IF Len(n.args) >= 2 THEN n.args ELSE <<>>)
      [] n.kind = "FieldAccess" -> <<n.val>>
      [] n.kind = "ArrayAccess" -> <<n.array, n.index>>
      [] n.kind = "SliceAccess" -> <<n.array, n.low, n.high>>
      [] n.kind = "Modifier" -> <<n.val>>
      [] n.kind = "Operation" ->
            IF n.type \in {"==", "!="} THEN <<n.left, n.right>> ELSE <<n.left>>
      [] OTHER -> <<>>

\* the result of the k-th of the sub-expressions cs, each evaluated in the
\* state its predecessor left; ok says that all predecessors yielded at
\* most one value and no error
RECURSIVE RunInOrder(_, _, _, _)
RunInOrder(cs, k, e, st) ==
    IF k = 1 THEN [ok |-> TRUE, r |-> Run(cs[1], e, st)]
    ELSE LET p == RunInOrder(cs, k - 1, e, st)
         IN [ok |-> p.ok /\ p.r.err = NoErr /\ Len(p.r.vals) <= 1,
             r |-> Run(cs[k], e, p.r.st)]

\* C11 (as claimed): when a sub-expression in a single-value position
\* (callee, target of a field, index or slice access, index, either slice
\* bound, operand, one of two or more arguments) yields more than one
\* value, the evaluation fails with ErrRuntime, yields nothing, and the
\* enclosing operation is not performed: nothing is called and nothing
\* changes beyond what the sub-expressions did
C11_MultiValueFails ==
    \A i \in 1..Len(hist) :
        LET cs == SinglePositions(hist[i].expr)
        IN \A k \in 1..Len(cs) :
              LET p == RunInOrder(cs, k, hist[i].env, PreSt(i))
              IN (p.ok /\ p.r.err = NoErr /\ Len(p.r.vals) >= 2) =>
                    /\ hist[i].err.type = "ErrRuntime"
                    /\ hist[i].vals = <<>>
                    /\ hist[i].calls = p.r.st.calls
                    /\ hist[i].post = [envs |-> p.r.st.envs, heap |-> p.r.st.heap]

\* ------------------------------------------------------------------------
\* Slice expressions
\* ------------------------------------------------------------------------

\* an integer literal
Num(n) == Lit(Int64V(n))

\* arr[1:3]
arr13 == SliceAccess(Ident("arr"), Num(1), Num(3))

\* arr[try(s.TestCall()):3]: a lower bound with a side effect
arrTry3 == SliceAccess(Ident("arr"), tryTestCall, Num(3))

\* try(s.TestCall())[try(s.TestCall()):3]: target and lower bound with a
\* side effect, the target no sequence
tryTryTry3 == SliceAccess(tryTestCall, tryTestCall, Num(3))

SliceExprs ==
    {arr13, arrTry3, tryTryTry3,
     SliceAccess(Ident("arr"), Num(0), Num(5)),
     SliceAccess(Ident("arr"), Num(2), Num(2)),
     SliceAccess(Ident("arr"), Num(3), Num(1)),
     SliceAccess(Ident("arr"), Num(6), Num(7)),
     SliceAccess(Ident("arr"), sTestCall, Num(3)),
     SliceAccess(Ident("arr"), Ident("a"), Num(3)),
     SliceAccess(Ident("arr"), Num(1), Ident("a")),
     SliceAccess(Ident("arr"), Ident("true"), Num(3)),
     SliceAccess(Ident("a"), tryTestCall, Num(3)),
     SliceAccess(arr13, Num(0), Num(0)),
     ArrayAccess(Ident("arr"), Num(1)),
     ArrayAccess(Ident("arr"), Num(5)),
     ArrayAccess(Ident("s"), Num(1)),
     ArrayAccess(Ident("arr"), Ident("true"))}

NextSlice == \E n \in SliceExprs : Eval(1, n)

SpecSlice == Init /\ [][NextSlice]_vars

\* C13 (as claimed): a slice expression a[lo:hi] whose target yields a
\* sequence and whose bounds yield integers with 0 <= lo <= hi <= len(a)
\* returns the hi-lo elements of a at the indices lo..hi-1; arr[1:3] on
\* the five-element arr returns the two elements at indices 1 and 2
C13_SliceLength ==
    \A i \in 1..Len(hist) :
        LET n == hist[i].expr
        IN n.kind = "SliceAccess" =>
              LET h == RunInOrder(<<n.array, n.low, n.high>>, 3, hist[i].env, PreSt(i))
                  l == RunInOrder(<<n.array, n.low, n.high>>, 2, hist[i].env, PreSt(i))
                  a == RunInOrder(<<n.array, n.low, n.high>>, 1, hist[i].env, PreSt(i))
              IN (/\ h.ok /\ h.r.err = NoErr
                  /\ Len(a.r.vals) = 1 /\ Len(l.r.vals) = 1 /\ Len(h.r.vals) = 1
                  /\ a.r.vals[1].k = "slice"
                  /\ CanInt(l.r.vals[1]) /\ CanInt(h.r.vals[1])
                  /\ 0 <= l.r.vals[1].v /\ l.r.vals[1].v <= h.r.vals[1].v
                  /\ h.r.vals[1].v <= Len(a.r.vals[1].v))
                 => /\ hist[i].err = NoErr
                    /\ Len(hist[i].vals) = 1
                    /\ hist[i].vals[1].k = "slice"
                    /\ Len(hist[i].vals[1].v) = h.r.vals[1].v - l.r.vals[1].v
                    /\ hist[i].vals[1].v =
                          SubSeq(a.r.vals[1].v, l.r.vals[1].v + 1, h.r.vals[1].v)

\* the state and the calls after the target of slice expression i has run
\* once and its lower bound k times after it
AfterLow(i, k) ==
    LET n == hist[i].expr
    IN RunInOrder(<<n.array>> \o [j \in 1..k |-> n.low], k + 1, hist[i].env, PreSt(i)).r.st

\* the target of slice expression i yields a single value without error
TargetYields(i) ==
    LET a == Run(hist[i].expr.array, hist[i].env, PreSt(i))
    IN a.err = NoErr /\ Len(a.vals) <= 1

\* the first evaluation of the lower bound of slice expression i, after
\* the target, yields a single value without error
LowYields(i) ==
    LET n == hist[i].expr
        l == RunInOrder(<<n.array, n.low>>, 2, hist[i].env, PreSt(i))
    IN l.ok /\ l.r.err = NoErr /\ Len(l.r.vals) <= 1

\* C14 (as claimed): the evaluation of a slice expression whose target
\* has been evaluated once (to a value) evaluates the lower bound exactly
\* twice: it leaves the calls and the state of the target run once and
\* the lower bound run twice after it
C14_LowTwiceAlways ==
    \A i \in 1..Len(hist) :
        (hist[i].expr.kind = "SliceAccess" /\ TargetYields(i)) =>
              /\ hist[i].calls = AfterLow(i, 2).calls
              /\ hist[i].post = [envs |-> AfterLow(i, 2).envs, heap |-> AfterLow(i, 2).heap]

\* C14 (amended): the evaluation of a slice expression whose target and
\* whose lower bound, evaluated once after the target, each yield a
\* single value without error evaluates the lower bound exactly twice
\* and the upper bound never: it leaves the calls and the state of the
\* target run once and the lower bound run twice after it. If the first
\* evaluation of the lower bound fails, the lower bound is evaluated once.
C14_LowTwice ==
    \A i \in 1..Len(hist) :
        (hist[i].expr.kind = "SliceAccess" /\ TargetYields(i)) =>
              LET k == IF LowYields(i) THEN 2 ELSE 1
              IN /\ hist[i].calls = AfterLow(i, k).calls
                 /\ hist[i].post = [envs |-> AfterLow(i, k).envs, heap |-> AfterLow(i, k).heap]

\* C14 witness: arr[try(s.TestCall()):3] ran TestCall twice and returned
\* arr[1:2], and a slice expression with an effect in its target ran
\* TestCall three times
C14_Witness ==
    /\ \E i \in 1..Len(hist) :
          /\ hist[i].expr = arrTry3
          /\ Pre(i).heap.s.calls = 0
          /\ hist[i].post.heap.s.calls = 2
          /\ hist[i].vals = <<SliceV(<<11>>)>>
    /\ \E i \in 1..Len(hist) :
          /\ hist[i].expr = tryTryTry3
          /\ hist[i].post.heap.s.calls = Pre(i).heap.s.calls + 3
          /\ hist[i].err.type = "ErrTypeMismatch"

\* ------------------------------------------------------------------------
\* Calls with a surplus argument and accesses to absent members
\* ------------------------------------------------------------------------

\* s.nope: TestStruct has neither a method nor a field nope
sNope == FieldAccess(Ident("s"), "nope")

\* x.Get(1): one argument for a method without parameters
xGet1 == MethodCall("x", "Get", <<Num(1)>>)

MemberExprs ==
    {sNope, xGet1,
     MethodCall("s", "GetField1", <<sGetField1>>),
     FieldAccess(Ident("s"), "Field1"),
     FieldAccess(Ident("x"), "nope"),
     FieldAccess(Modifier("*", Ident("s")), "nope"),
     FieldAccess(Modifier("*", Ident("s")), "GetField1"),
     FieldAccess(Num(1), "nope"),
     FieldAccess(Ident("arr"), "nope"),
     FieldAccess(Ident("try"), "nope"),
     FieldAccess(Ident("nil"), "nope"),
     FieldAccess(FieldAccess(Ident("s"), "GetField1"), "nope"),
     Call(sNope, <<>>),
     sGetField1, xGet, sSetTry}

NextMember == \E n \in MemberExprs : Eval(1, n)

SpecMember == Init /\ [][NextMember]_vars

\* the value v has a method or a field called name
HasMember(v, name) ==
    CASE v.k = "ptr" -> name \in MethodSet(v.v) \cup FieldSet(v.v)
      [] v.k = "struct" -> name \in FieldSet(v.v)
      [] OTHER -> FALSE

\* C15 (as claimed): a call of a callable without parameters with one
\* argument value, and a field access whose target has no method and no
\* field of that name, fail with ErrTypeMismatch and yield nothing
C15_MismatchErrors ==
    \A i \in 1..Len(hist) :
        LET n == hist[i].expr
            e == hist[i].env
        IN /\ (n.kind = "Call" /\ Len(n.args) = 1) =>
                  LET f == Run(n.fn, e, PreSt(i))
                      a == Run(n.args[1], e, f.st)
                  IN (/\ f.err = NoErr /\ Len(f.vals) = 1 /\ f.vals[1].k = "func"
                      /\ Signature(f.vals[1].v) = <<>>
                      /\ a.err = NoErr /\ Len(a.vals) = 1)
                     => (hist[i].err.type = "ErrTypeMismatch" /\ hist[i].vals = <<>>)
           /\ n.kind = "FieldAccess" =>
                  LET t == Run(n.val, e, PreSt(i))
                  IN (/\ t.err = NoErr /\ Len(t.vals) = 1
                      /\ t.vals[1].k \notin {"invalid", "lowerFunc", "lowerStruct"}
                      /\ ~HasMember(t.vals[1], n.field))
                     => (hist[i].err.type = "ErrTypeMismatch" /\ hist[i].vals = <<>>)

\* ------------------------------------------------------------------------
\* The parser: characters and positions. A source is a sequence of
\* characters; ps is the Parser's fixed part (ps.source, and ps.order, the
\* order in which this run iterates the operator maps), p its position.
\* ------------------------------------------------------------------------

\* the rune -1 that stands for the end of the input
EOFChar == "EOF"

Digits == {"0", "1", "2", "3", "4", "5", "6", "7", "8", "9"}

Letters ==
    {"a", "b", "c", "d", "e", "f", "g", "h", "i", "j", "k", "l", "m", "n", "o", "p", "q",
     "r", "s", "t", "u", "v", "w", "x", "y", "z", "A", "B", "C", "D", "E", "F", "G", "H",
     "I", "J", "K", "L", "M", "N", "O", "P", "Q", "R", "S", "T", "U", "V", "W", "X", "Y",
     "Z"}

\* the position of NewParser
StartPos == [offset |-> 0, line |-> 1, col |-> 1]

eof(ps, p) == p.offset >= Len(ps.source)

\* Parser.char
char(ps, p, lookahead) ==
    IF p.offset + lookahead >= Len(ps.source) \/ p.offset + lookahead < 0
    THEN EOFChar
    ELSE ps.source[p.offset + lookahead + 1]

\* Parser.advance: the position and the error it returns
RECURSIVE advance(_, _, _)
advance(ps, p, distance) ==
    IF distance = 0 THEN [p |-> p, err |-> NoErr]
    ELSE IF eof(ps, p) THEN [p |-> p, err |-> PlainErr(<<"unexpected eof">>)]
    ELSE advance(ps,
                 IF char(ps, p, 0) = "\n"
                 THEN [offset |-> p.offset + 1, line |-> p.line + 1, col |-> 1]
                 ELSE [offset |-> p.offset + 1, line |-> p.line, col |-> p.col + 1],
                 distance - 1)

\* Parser.string
string(ps, p, width) ==
    SubSeq(ps.source, p.offset + 1,
           IF Len(ps.source) - p.offset < width THEN Len(ps.source) ELSE p.offset + width)

\* Parser.sourceError
sourceError(p, msg) == PosErr(<<p.line, p.col>>, "ErrParser", msg)

\* charRepr
charRepr(c) == IF c = EOFChar THEN <<"e", "o", "f">> ELSE <<"\"">> \o QuoteChars(<<c>>) \o <<"\"">>

\* the loop of skipComment: the position after commentEnd, or the end of
\* the input
RECURSIVE skipCommentBody(_, _, _)
skipCommentBody(ps, p, commentEnd) ==
    IF eof(ps, p) THEN p
    ELSE IF string(ps, p, Len(commentEnd)) = commentEnd
    THEN advance(ps, p, Len(commentEnd)).p
    ELSE skipCommentBody(ps, advance(ps, p, 1).p, commentEnd)

\* skipComment; none of its advances starts at the end of the input
skipComment(ps, p) ==
    IF string(ps, p, 2) = <<"/", "/">>
    THEN [skipped |-> TRUE, p |-> skipCommentBody(ps, advance(ps, p, 2).p, <<"\n">>)]
    ELSE IF string(ps, p, 2) = <<"/", "*">>
    THEN [skipped |-> TRUE, p |-> skipCommentBody(ps, advance(ps, p, 2).p, <<"*", "/">>)]
    ELSE [skipped |-> FALSE, p |-> p]

\* skipWhitespace
skipWhitespace(ps, p) ==
    IF eof(ps, p) THEN [skipped |-> FALSE, p |-> p]
    ELSE IF skipComment(ps, p).skipped THEN skipComment(ps, p)
    ELSE IF char(ps, p, 0) \in {" ", "\t", "\r", "\n"}
    THEN [skipped |-> TRUE, p |-> advance(ps, p, 1).p]
    ELSE [skipped |-> FALSE, p |-> p]

\* skipAllWhitespace: the position it leaves
RECURSIVE skipAllWhitespace(_, _)
skipAllWhitespace(ps, p) ==
    IF skipWhitespace(ps, p).skipped THEN skipAllWhitespace(ps, skipWhitespace(ps, p).p)
    ELSE p

isIdentifierChar(c) == c = "_" \/ c \in Letters \/ c \in Digits

isUniquelyFloatingPointChar(c) == c \in {".", "e", "E", "+", "-", "p", "P"}

isNumberChar(c) ==
    \/ c \in Digits
    \/ isUniquelyFloatingPointChar(c)
    \/ c \in {"b", "B", "o", "O", "x", "X", "a", "A", "c", "C", "d", "D", "e", "E", "f", "F", "_"}

\* parseChars: how many characters from p on are allowed
runLength(ps, p, allowed(_)) ==
    CHOOSE k \in 0..(Len(ps.source) - p.offset) :
        /\ \A j \in 0..(k - 1) : allowed(char(ps, p, j))
        /\ ~allowed(char(ps, p, k))

\* ------------------------------------------------------------------------
\* The parser: numbers
\* ------------------------------------------------------------------------

DigitVal(c) ==
    CASE c = "0" -> 0 [] c = "1" -> 1 [] c = "2" -> 2 [] c = "3" -> 3 [] c = "4" -> 4
      [] c = "5" -> 5 [] c = "6" -> 6 [] c = "7" -> 7 [] c = "8" -> 8 [] c = "9" -> 9

\* the value of a sequence of decimal digits
RECURSIVE DecVal(_)
DecVal(ds) == IF ds = <<>> THEN 0 ELSE 10 * DecVal(SubSeq(ds, 1, Len(ds) - 1)) + DigitVal(ds[Len(ds)])

RECURSIVE Pow10(_)
Pow10(n) == IF n = 0 THEN 1 ELSE 10 * Pow10(n - 1)

\* the error strconv and time return: no sentinel of the package, no
\* position
convError(fn, num) ==
    PlainErr(<<fn, ": parsing ">> \o <<"\"">> \o QuoteChars(num) \o <<"\"">> \o <<": invalid syntax">>)

\* strconv.ParseInt(num, 0, 64) for the literals of the model: they start
\* with a digit other than 0 (no base prefix) and hold no underscore, so
\* num is a decimal number or invalid
ParseInt(num) ==
    CASE \A i \in 1..Len(num) : num[i] \in Digits /\ (Len(num) = 1 \/ num[1] # "0") ->
            [val |-> Int64V(DecVal(num)), err |-> NoErr]
      [] num[1] # "0" /\ (\E i \in 1..Len(num) : num[i] \in Letters)
         /\ (\A i \in 1..Len(num) : num[i] # "_") ->
            [val |-> NilV, err |-> convError("strconv.ParseInt", num)]

\* the digits of num before and after its first "."
IntPart(num) == SubSeq(num, 1, (CHOOSE i \in 1..(Len(num) + 1) :
                                   /\ (i = Len(num) + 1 \/ num[i] = ".")
                                   /\ \A j \in 1..(i - 1) : num[j] # ".") - 1)

FracPart(num) == SubSeq(num, Len(IntPart(num)) + 2, Len(num))

\* num is digits with at most one "." among them
IsDecimal(num) ==
    /\ \A i \in 1..Len(IntPart(num)) : IntPart(num)[i] \in Digits
    /\ \A i \in 1..Len(FracPart(num)) : FracPart(num)[i] \in Digits

\* strconv.ParseFloat(num, 64) for the literals of the model, which hold
\* no exponent and no underscore: a decimal number with a "." is the float
\* of its integer part and its fraction digits, a sign or a hex letter
\* after the leading digit is invalid
ParseFloat(num) ==
    CASE IsDecimal(num) ->
            [val |-> [k |-> "float64", v |-> <<DecVal(IntPart(num)), FracPart(num)>>],
             err |-> NoErr]
      [] ~IsDecimal(num)
         /\ (\A i \in 1..Len(num) : num[i] \notin {"e", "E", "p", "P", "_"}) ->
            [val |-> NilV, err |-> convError("strconv.ParseFloat", num)]

durationSuffixes ==
    <<  <<"n", "s">>, <<"u", "s">>, <<"mu", "s">>, <<"m", "s">>, <<"s">>, <<"m">>, <<"h">>  >>

\* len(suffix), in bytes: the micro sign takes two
suffixLen(suffix) == IF suffix[1] = "mu" THEN 3 ELSE Len(suffix)

\* a unit in whole seconds and nanoseconds
unitOf(suffix) ==
    CASE suffix = <<"n", "s">> -> [sec |-> 0, ns |-> 1]
      [] suffix = <<"u", "s">> -> [sec |-> 0, ns |-> 1000]
      [] suffix = <<"mu", "s">> -> [sec |-> 0, ns |-> 1000]
      [] suffix = <<"m", "s">> -> [sec |-> 0, ns |-> 1000000]
      [] suffix = <<"s">> -> [sec |-> 1, ns |-> 0]
      [] suffix = <<"m">> -> [sec |-> 60, ns |-> 0]
      [] suffix = <<"h">> -> [sec |-> 3600, ns |-> 0]

\* time.ParseDuration(num + suffix): num holds no unit letter, so the text
\* is a duration exactly if num is decimal; the value is i units plus the
\* fraction f / 10^n of a unit, as seconds and nanoseconds (counts and
\* fractions of at most three digits)
ParseDuration(num, suffix) ==
    IF ~IsDecimal(num)
    THEN [val |-> NilV, err |-> convError("time: invalid duration", num \o suffix)]
    ELSE LET u == unitOf(suffix)
             i == DecVal(IntPart(num))
             f == DecVal(FracPart(num))
             scale == Pow10(Len(FracPart(num)))
             nanos == i * u.ns + (f * u.ns) \div scale
                      + ((f * u.sec) % scale) * (1000000000 \div scale)
         IN [val |-> [k |-> "duration",
                      v |-> <<i * u.sec + (f * u.sec) \div scale + nanos \div 1000000000,
                              nanos % 1000000000>>],
             err |-> NoErr]

\* an acceptance test parseDurationSuffix could apply: the character
\* after the suffix is no identifier character
suffixAtBoundary(ps, p, suffix) == ~isIdentifierChar(char(ps, p, suffixLen(suffix)))

\* the test parseDurationSuffix applies to a suffix beyond the text
\* comparison: none
suffixAccepted(ps, p, suffix) == TRUE

\* parseDurationSuffix: the first suffix of the list the text starts with
parseDurationSuffix(ps, p) ==
    LET found == {i \in 1..Len(durationSuffixes) :
                    /\ string(ps, p, suffixLen(durationSuffixes[i])) = durationSuffixes[i]
                    /\ suffixAccepted(ps, p, durationSuffixes[i])}
    IN IF found = {} THEN [suffix |-> <<>>, p |-> p, err |-> NoErr]
       ELSE LET suffix == durationSuffixes[CHOOSE i \in found : \A j \in found : i <= j]
            IN [suffix |-> suffix,
                p |-> advance(ps, p, suffixLen(suffix)).p,
                err |-> advance(ps, p, suffixLen(suffix)).err]

\* no node: the nil Evaluable
NilNode == [kind |-> "nil"]

\* what a parse function returns and the position it leaves
PR(node, err, p) == [node |-> node, err |-> err, p |-> p]

\* parseNumber
parseNumber(ps, p) ==
    IF char(ps, p, 0) \notin Digits THEN PR(NilNode, NoErr, p)
    ELSE LET n == runLength(ps, p, isNumberChar)
             num == string(ps, p, n)
             sfx == parseDurationSuffix(ps, advance(ps, p, n).p)
             after == skipAllWhitespace(ps, sfx.p)
             conv == IF sfx.suffix # <<>> THEN ParseDuration(num, sfx.suffix)
                     ELSE IF \E i \in 1..Len(num) : isUniquelyFloatingPointChar(num[i])
                     THEN ParseFloat(num)
                     ELSE ParseInt(num)
         IN IF sfx.err # NoErr THEN PR(NilNode, sfx.err, sfx.p)
            ELSE IF conv.err # NoErr THEN PR(NilNode, conv.err, after)
            ELSE PR(Lit(conv.val), NoErr, after)

\* ------------------------------------------------------------------------
\* The parser: literals. Names and string literals of a parsed tree are
\* sequences of characters.
\* ------------------------------------------------------------------------

\* the position a node keeps: line and column of a checkpoint
At(p) == <<p.line, p.col>>

\* %q of a string
Quoted(cs) == <<"\"">> \o QuoteChars(cs) \o <<"\"">>

\* parseIdentifier: it skips whitespace even when it finds no name
parseIdentifier(ps, p) ==
    IF char(ps, p, 0) \in Digits THEN PR(NilNode, NoErr, p)
    ELSE LET n == runLength(ps, p, isIdentifierChar)
             after == skipAllWhitespace(ps, advance(ps, p, n).p)
         IN IF n = 0 THEN PR(NilNode, NoErr, after)
            ELSE PR([kind |-> "Ident", name |-> string(ps, p, n), pos |-> At(p)], NoErr, after)

\* the loop of parseString from p on, val the characters so far
RECURSIVE parseStringBody(_, _, _)
parseStringBody(ps, p, val) ==
    LET r == char(ps, p, 0)
        a == advance(ps, p, 1)
        r2 == char(ps, a.p, 0)
        b == advance(ps, a.p, 1)
    IN IF a.err # NoErr THEN PR(NilNode, a.err, a.p)
       ELSE IF r = "\\"
       THEN (IF b.err # NoErr THEN PR(NilNode, b.err, b.p)
             ELSE IF r2 \in {"\\", "\""} THEN parseStringBody(ps, b.p, Append(val, r2))
             ELSE IF r2 = "n" THEN parseStringBody(ps, b.p, Append(val, "\n"))
             ELSE IF r2 = "t" THEN parseStringBody(ps, b.p, Append(val, "\t"))
             ELSE PR(NilNode,
                     sourceError(b.p, <<"unexpected escape code: ">> \o charRepr(r2)), b.p))
       ELSE IF r = "\"" THEN PR(Lit(StrV(val)), NoErr, skipAllWhitespace(ps, a.p))
       ELSE IF r = "\n" THEN PR(NilNode, sourceError(a.p, <<"unexpected end of line">>), a.p)
       ELSE parseStringBody(ps, a.p, Append(val, r))

\* parseString
parseString(ps, p) ==
    IF char(ps, p, 0) # "\"" THEN PR(NilNode, NoErr, p)
    ELSE parseStringBody(ps, advance(ps, p, 1).p, <<>>)

\* parseLiteral
parseLiteral(ps, p) ==
    LET str == parseString(ps, p)
        ident == parseIdentifier(ps, str.p)
    IN IF str.err # NoErr \/ str.node.kind # "nil" THEN str
       ELSE IF ident.node.kind # "nil" THEN ident
       ELSE parseNumber(ps, ident.p)

\* ------------------------------------------------------------------------
\* The parser: expressions. The precedence levels are numbered from the
\* tightest: 0 parseModifiedSubexpression, 1 parseValNegation,
\* 2 parseMultiplicationDivision, 3 parseAdditionSubtraction,
\* 4 parseComparison, 5 parseBoolNegation, 6 parseConjunction,
\* 7 parseDisjunction; the valueParse of level n is level n - 1.
\* ------------------------------------------------------------------------

\* a parseOpAndRHS that takes the first operator whose text matches
retriesNever(rhs) == FALSE

\* parseOpAndRHS gives an operator up, restores the position and tries the
\* next one, when the operator's right-hand side parsed to nil
retries(rhs) == rhs.node.kind = "nil"

\* an operator text and the class (OpType, ModType) it stands for
Op(cls, op) == [cls |-> cls, op |-> op]

\* the operator map of a level, its entries in the order they are written
opMap(level) ==
    CASE level = 1 -> <<Op("-", <<"-">>), Op("&", <<"&">>), Op("*", <<"*">>)>>
      [] level = 2 -> <<Op("*", <<"*">>), Op("/", <<"/">>)>>
      [] level = 3 -> <<Op("+", <<"+">>), Op("-", <<"-">>)>>
      [] level = 4 -> <<Op("<", <<"<">>), Op("<=", <<"<", "=">>), Op("==", <<"=", "=">>),
                        Op("!=", <<"!", "=">>), Op("!=", <<"~", "=">>), Op("!=", <<"<", ">">>),
                        Op(">", <<">">>), Op(">=", <<">", "=">>)>>
      [] level = 5 -> <<Op("!", <<"!">>)>>
      [] level = 6 -> <<Op("&&", <<"&", "&">>)>>
      [] level = 7 -> <<Op("||", <<"|", "|">>)>>

\* the orders in which a run may iterate the maps: as written, or from
\* the last class to the first (the operators of one class keep their
\* order)
Orders == {"written", "reversed"}

\* the entries of a map in the order this run iterates it
opsInOrder(level, order) ==
    IF order = "written" THEN opMap(level)
    ELSE LET m == opMap(level)
             \* the entries of the classes after that of entry i
             later(i) == Cardinality({m[j].cls : j \in (i + 1)..Len(m)} \ {m[i].cls})
             \* the entries of the class of entry i before it
             before(i) == Cardinality({j \in 1..(i - 1) : m[j].cls = m[i].cls})
             rank(i) == Cardinality({j \in 1..Len(m) : later(j) < later(i)}) + before(i) + 1
         IN [k \in 1..Len(m) |-> m[CHOOSE i \in 1..Len(m) : rank(i) = k]]

\* isBoundary
isBoundary(char1, char2) == ~isIdentifierChar(char1) \/ ~isIdentifierChar(char2)

\* a Parse that returns the tree whatever is left of the input
unparsedNever(ps, p) == FALSE

\* the test of Parse for input left over
unparsed(ps, p) == ~eof(ps, p)

\* parseFieldAccess
parseFieldAccess(ps, p, val) ==
    IF char(ps, p, 0) # "." THEN PR(NilNode, NoErr, p)
    ELSE LET field == parseIdentifier(ps, skipAllWhitespace(ps, advance(ps, p, 1).p))
         IN IF field.node.kind = "nil" THEN PR(NilNode, NoErr, p)
            ELSE PR([kind |-> "FieldAccess", val |-> val, field |-> field.node.name,
                     pos |-> At(p)], NoErr, field.p)

\* the element of a one-element set: in The({e(x) : x \in {r}}) r is
\* evaluated once, however often e uses x
The(S) == CHOOSE y \in S : TRUE

\* the position after the character at p and the whitespace behind it
afterChar(ps, p) == skipAllWhitespace(ps, advance(ps, p, 1).p)

\* The parse functions that call each other, as one recursive operator:
\* fn names the function, p is the position it starts at, a holds its
\* other arguments (a.level the precedence level, a.val the expression so
\* far, a.i the next map entry, a.args the arguments so far).
RECURSIVE parse(_, _, _, _)
parse(fn, ps, p, a) ==
    CASE fn = "parseExpression" -> parse("parseLevel", ps, p, [level |-> 7])
      [] fn = "parseLevel" ->
            IF a.level = 0 THEN parse("parseModifiedSubexpression", ps, p, a)
            ELSE IF a.level \in {1, 5} THEN parse("parseModifier", ps, p, a)
            ELSE parse("parseOperation", ps, p, a)
      [] fn = "parseOpAndRHS" ->
            \* the loops from entry a.i of the map on; cpos is p. An operator
            \* whose right-hand side is nil is given up and the position
            \* restored.
            IF a.i > Len(opsInOrder(a.level, ps.order))
            THEN [cls |-> "", rhs |-> NilNode, err |-> NoErr, p |-> p]
            ELSE The({
                 IF ~(/\ string(ps, p, Len(op.op)) = op.op
                      /\ isBoundary(char(ps, p, Len(op.op) - 1), char(ps, p, Len(op.op))))
                 THEN parse("parseOpAndRHS", ps, p, [a EXCEPT !.i = @ + 1])
                 ELSE The({
                      IF rhs.err # NoErr
                      THEN [cls |-> "", rhs |-> NilNode, err |-> rhs.err, p |-> rhs.p]
                      ELSE IF ~retries(rhs)
                      THEN [cls |-> op.cls, rhs |-> rhs.node, err |-> NoErr, p |-> rhs.p]
                      ELSE parse("parseOpAndRHS", ps, p, [a EXCEPT !.i = @ + 1])
                        : rhs \in {parse("parseLevel", ps,
                                 skipAllWhitespace(ps, advance(ps, p, Len(op.op)).p),
                                 [level |-> a.level - 1])}})
                                   : op \in {opsInOrder(a.level, ps.order)[a.i]}})
      [] fn = "parseOperation" ->
            The({
            IF val.err # NoErr \/ val.node.kind = "nil" THEN PR(NilNode, val.err, val.p)
            ELSE parse("parseOperation loop", ps, val.p, [level |-> a.level, val |-> val.node])
              : val \in {parse("parseLevel", ps, p, [level |-> a.level - 1])}})
      [] fn = "parseOperation loop" ->
            IF eof(ps, p) THEN PR(a.val, NoErr, p)
            ELSE The({
                 IF r.err # NoErr THEN PR(NilNode, r.err, r.p)
                 ELSE IF r.cls = "" THEN PR(a.val, NoErr, r.p)
                 ELSE parse("parseOperation loop", ps, r.p,
                            [level |-> a.level,
                             val |-> [kind |-> "Operation", type |-> r.cls, left |-> a.val,
                                      right |-> r.rhs, pos |-> At(p)]])
                                        : r \in {parse("parseOpAndRHS", ps, p, [level |-> a.level, i |-> 1])}})
      [] fn = "parseModifier" ->
            The({
            IF r.err # NoErr THEN PR(NilNode, r.err, r.p)
            ELSE IF r.cls # ""
            THEN PR([kind |-> "Modifier", type |-> r.cls, val |-> r.rhs, pos |-> At(p)],
                    NoErr, r.p)
            ELSE parse("parseLevel", ps, r.p, [level |-> a.level - 1])
              : r \in {parse("parseOpAndRHS", ps, p, [level |-> a.level, i |-> 1])}})
      [] fn = "parseArrayAccess" ->
            \* neither bound is tested for nil
            IF char(ps, p, 0) # "[" THEN PR(NilNode, NoErr, p)
            ELSE The({
                 IF low.err # NoErr THEN PR(NilNode, low.err, low.p)
                 ELSE IF char(ps, low.p, 0) = ":"
                 THEN The({
                      IF high.err # NoErr THEN PR(NilNode, high.err, high.p)
                      ELSE IF char(ps, high.p, 0) # "]"
                      THEN PR(NilNode,
                              sourceError(high.p, <<"expected end of array access">>), high.p)
                      ELSE PR([kind |-> "SliceAccess", array |-> a.val, low |-> low.node,
                               high |-> high.node, pos |-> At(p)],
                              NoErr, afterChar(ps, high.p))
                                : high \in {parse("parseExpression", ps, afterChar(ps, low.p), a)}})
                 ELSE IF char(ps, low.p, 0) # "]"
                 THEN PR(NilNode, sourceError(low.p, <<"expected end of array access">>), low.p)
                 ELSE PR([kind |-> "ArrayAccess", array |-> a.val, index |-> low.node,
                          pos |-> At(p)],
                         NoErr, afterChar(ps, low.p))
                           : low \in {parse("parseExpression", ps, afterChar(ps, p), a)}})
      [] fn = "parseArgs" ->
            \* after "("; the node of the result is the argument list
            The({
            IF char(ps, p1, 0) = ")" THEN PR(<<>>, NoErr, afterChar(ps, p1))
            ELSE The({
                 IF arg.err # NoErr THEN PR(<<>>, arg.err, arg.p)
                 ELSE IF arg.node.kind = "nil"
                 THEN PR(<<>>, sourceError(arg.p, <<"unexpected missing argument">>), arg.p)
                 ELSE parse("parseArgs loop", ps, arg.p, [args |-> <<arg.node>>])
                   : arg \in {parse("parseExpression", ps, p1, a)}}) : p1 \in {afterChar(ps, p)}})
      [] fn = "parseArgs loop" ->
            IF char(ps, p, 0) = ")" THEN PR(a.args, NoErr, afterChar(ps, p))
            ELSE IF char(ps, p, 0) # ","
            THEN PR(<<>>, sourceError(p, <<"unexpected character ">>
                                         \o charRepr(char(ps, p, 0))), p)
            ELSE The({
                 IF arg.err # NoErr THEN PR(<<>>, arg.err, arg.p)
                 ELSE IF arg.node.kind = "nil"
                 THEN PR(<<>>, sourceError(arg.p, <<"unexpected missing argument">>), arg.p)
                 ELSE parse("parseArgs loop", ps, arg.p, [args |-> Append(a.args, arg.node)])
                   : arg \in {parse("parseExpression", ps, afterChar(ps, p), a)}})
      [] fn = "parseFunctionCall" ->
            IF char(ps, p, 0) # "(" THEN PR(NilNode, NoErr, p)
            ELSE The({
                 IF args.err # NoErr THEN PR(NilNode, args.err, args.p)
                 ELSE PR([kind |-> "Call", fn |-> a.val, args |-> args.node, pos |-> At(p)],
                         NoErr, args.p) : args \in {parse("parseArgs", ps, p, a)}})
      [] fn = "parseModifiedSubexpression" ->
            The({
            IF val.err # NoErr \/ val.node.kind = "nil" THEN val
            ELSE parse("parseModifiedSubexpression loop", ps, val.p, [val |-> val.node])
              : val \in {parse("parseSubexpression", ps, p, a)}})
      [] fn = "parseModifiedSubexpression loop" ->
            IF eof(ps, p) THEN PR(a.val, NoErr, p)
            ELSE The({
                 IF fa.err # NoErr THEN PR(NilNode, fa.err, fa.p)
                 ELSE IF fa.node.kind # "nil"
                 THEN parse("parseModifiedSubexpression loop", ps, fa.p, [val |-> fa.node])
                 ELSE The({
                      IF aa.err # NoErr THEN PR(NilNode, aa.err, aa.p)
                      ELSE IF aa.node.kind # "nil"
                      THEN parse("parseModifiedSubexpression loop", ps, aa.p, [val |-> aa.node])
                      ELSE The({
                           IF fc.err # NoErr THEN PR(NilNode, fc.err, fc.p)
                           ELSE IF fc.node.kind # "nil"
                           THEN parse("parseModifiedSubexpression loop", ps, fc.p,
                                      [val |-> fc.node])
                           ELSE PR(a.val, NoErr, fc.p)
                             : fc \in {parse("parseFunctionCall", ps, aa.p, a)}}) : aa \in {parse("parseArrayAccess", ps, fa.p, a)}}) : fa \in {parseFieldAccess(ps, p, a.val)}})
      [] fn = "parseSubexpression" ->
            IF char(ps, p, 0) # "(" THEN parseLiteral(ps, p)
            ELSE The({
                 IF expr.err # NoErr THEN PR(NilNode, expr.err, expr.p)
                 ELSE IF expr.node.kind = "nil"
                 THEN PR(NilNode, sourceError(expr.p, <<"missing subexpression">>), expr.p)
                 ELSE IF char(ps, expr.p, 0) # ")"
                 THEN PR(NilNode,
                         sourceError(expr.p, <<"subexpression ended unexpectedly, found ">>
                                             \o charRepr(char(ps, expr.p, 0))), expr.p)
                 ELSE PR([kind |-> "Subexpression", expr |-> expr.node, pos |-> At(p)],
                         NoErr, afterChar(ps, expr.p))
                           : expr \in {parse("parseExpression", ps, afterChar(ps, p), a)}})

\* parseExpression
parseExpression(ps, p) == parse("parseExpression", ps, p, <<>>)

\* Parser.Parse
ParserParse(ps) ==
    The({
    IF val.err # NoErr THEN PR(NilNode, val.err, val.p)
    ELSE IF unparsed(ps, val.p)
    THEN PR(NilNode,
            sourceError(val.p, <<"unparsed input: ">>
                               \o Quoted(SubSeq(ps.source, val.p.offset + 1, Len(ps.source)))),
            val.p)
    ELSE IF val.node.kind = "nil"
    THEN PR(NilNode, sourceError(val.p, <<"nothing parsed">>), val.p)
    ELSE val : val \in {parseExpression(ps, skipAllWhitespace(ps, StartPos))}})

\* ------------------------------------------------------------------------
\* Parsing and evaluating input texts
\* ------------------------------------------------------------------------

\* length of the input texts that are enumerated exhaustively
MaxLen == 3

\* the characters of the enumerated texts: a letter, a digit, a letter
\* that is a duration suffix, an operator, a blank and a parenthesis
ParseAlphabet == {"a", "1", "s", "+", " "}

\* further texts: other operators, strings, comments, accesses, calls,
\* several lines
ExtraSources ==
    {<<"a", "<", "=", "a">>, <<"a", "<", ">", "1">>, <<"a", "&", "&", "s">>,
     <<"a", "|", "|", "s">>, <<"!", "a">>, <<"-", "a">>, <<"a", "*", "s">>,
     <<"\"", "a">>, <<"\"", "a", "\"">>, <<"\"", "\\", "q", "\"">>, <<"\"", "a", "\n", "\"">>,
     <<"1", "m", "s">>, <<"1", "m", "s", "a">>, <<"1", "h", "1">>, <<"1", "mu", "s">>,
     <<"1", ".", "5", "s">>, <<"1", ".", "5">>,
     <<"a", "\n", " ", "1">>, <<"a", " ", "/", "/", "s", "\n", "1">>,
     <<"a", "/", "*", "s", "*", "/">>, <<"/", "*", "a">>,
     <<"a", ".", "s">>, <<"a", ".">>, <<"a", "[", "1", "]">>, <<"a", "[", "1", ":", "3", "]">>,
     <<"a", "[", "1">>, <<"a", "[", "]">>, <<"a", "[", ":", "3", "]">>,
     <<"a", "[", "1", ":", "]">>, <<"a", ">", "=", "1">>, <<"a", "<", "=">>,
     <<"a", "<", "=", "\"">>, <<"a", "<", "1">>, <<"a", "(", "1", ",", "s", ")">>, <<"a", "(", "1", " ", "s", ")">>,
     <<"a", "(", ",", ")">>, <<"(", "a", ")">>, <<"(", "a">>, <<"(", ")">>, <<"a", ")">>,
     <<"x", ".", "G", "e", "t", "(", ")">>, <<"a", "r", "r", "[", "1", "]">>,
     <<"t", "r", "u", "e", "|", "|", "a">>}

\* all sequences over S of a length up to n
RECURSIVE SeqsUpTo(_, _)
SeqsUpTo(S, n) ==
    IF n = 0 THEN {<<>>}
    ELSE SeqsUpTo(S, n - 1) \cup {Append(q, c) : q \in {r \in SeqsUpTo(S, n - 1) : Len(r) = n - 1}, c \in S}

Sources == SeqsUpTo(ParseAlphabet, MaxLen) \cup ExtraSources

\* the names the environments and the host objects of the model know
KnownNames == {"a", "s", "x", "arr", "true", "nil", "Get"}

IsKnown(cs) == \E name \in KnownNames : Runes(name) = cs

\* string(chars) for a known name
Str(cs) == CHOOSE name \in KnownNames : Runes(name) = cs

\* every name and every string literal of the parsed tree n is known
RECURSIVE AllKnown(_)
AllKnown(n) ==
    CASE n.kind = "Ident" -> IsKnown(n.name)
      [] n.kind = "Value" -> n.val.k = "string" => IsKnown(n.val.v)
      [] n.kind = "FieldAccess" -> IsKnown(n.field) /\ AllKnown(n.val)
      [] n.kind = "Call" -> AllKnown(n.fn) /\ \A i \in 1..Len(n.args) : AllKnown(n.args[i])
      [] n.kind = "Operation" -> AllKnown(n.left) /\ AllKnown(n.right)
      [] n.kind \in {"Modifier", "Subexpression"} ->
            AllKnown(IF n.kind = "Modifier" THEN n.val ELSE n.expr)
      [] n.kind = "ArrayAccess" -> AllKnown(n.array) /\ AllKnown(n.index)
      [] n.kind = "SliceAccess" -> AllKnown(n.array) /\ AllKnown(n.low) /\ AllKnown(n.high)
      [] OTHER -> TRUE

\* the parsed tree n as Run takes it: names and string literals as
\* strings
RECURSIVE Tree(_)
Tree(n) ==
    CASE n.kind = "Ident" -> [n EXCEPT !.name = Str(@)]
      [] n.kind = "Value" -> IF n.val.k = "string" THEN Lit(StrV(Str(n.val.v))) ELSE n
      [] n.kind = "FieldAccess" -> [n EXCEPT !.field = Str(@), !.val = Tree(@)]
      [] n.kind = "Call" ->
            [n EXCEPT !.fn = Tree(@), !.args = [i \in 1..Len(n.args) |-> Tree(n.args[i])]]
      [] n.kind = "Operation" -> [n EXCEPT !.left = Tree(@), !.right = Tree(@)]
      [] n.kind = "Modifier" -> [n EXCEPT !.val = Tree(@)]
      [] n.kind = "Subexpression" -> [n EXCEPT !.expr = Tree(@)]
      [] n.kind = "ArrayAccess" -> [n EXCEPT !.array = Tree(@), !.index = Tree(@)]
      [] n.kind = "SliceAccess" ->
            [n EXCEPT !.array = Tree(@), !.low = Tree(@), !.high = Tree(@)]
      [] OTHER -> n

\* an input text and a map order, before the parse
InitParse ==
    /\ InitShell
    /\ envs = InitState.envs
    /\ heap = InitState.heap
    /\ hist = <<>>
    /\ input \in [source : Sources, order : Orders]
    /\ parsed = NotParsed

\* Parse(expression), the first half of Eval
DoParse ==
    /\ ~parsed.done
    /\ parsed' = The({[done |-> TRUE, node |-> r.node, err |-> r.err, offset |-> r.p.offset]
                       : r \in {ParserParse(input)}})
    /\ UNCHANGED <<envs, heap, hist, input>>
    /\ UNCHANGED shellVars

\* the second half of Eval: the parsed tree runs, unless Parse failed
EvalParsed ==
    /\ parsed.done
    /\ parsed.err = NoErr
    /\ AllKnown(parsed.node)
    /\ Eval(1, Tree(parsed.node))

NextParse == DoParse \/ EvalParsed

SpecParse == InitParse /\ [][NextParse]_vars

\* ---------------------------------------------------------------------
\* Parse and the input it leaves over

\* the line and column of the character behind the first offset characters
\* of the text src, counted from the line ends of the text
LineCol(src, offset) ==
    LET ends == {i \in 1..offset : src[i] = "\n"}
        last == IF ends = {} THEN 0 ELSE CHOOSE i \in ends : \A j \in ends : j <= i
    IN <<Cardinality(ends) + 1, offset - last + 1>>

\* the first k characters of the input ps
Prefix(ps, k) == [ps EXCEPT !.source = SubSeq(@, 1, k)]

\* the lengths of the prefixes of ps that Parse accepts
Parseable(ps) == {k \in 0..Len(ps.source) : ParserParse(Prefix(ps, k)).err = NoErr}

\* the end of the longest parseable expression ps starts with
Longest(ps) == CHOOSE k \in Parseable(ps) : \A j \in Parseable(ps) : j <= k

\* the offset of the first character from offset k on that is no
\* whitespace and in no comment
FragmentAt(ps, k) == skipAllWhitespace(ps, advance(ps, StartPos, k).p).offset

\* the error of Parse for the input left from offset k on
unparsedInput(ps, k) ==
    PosErr(LineCol(ps.source, k), "ErrParser",
           <<"unparsed input: ">> \o Quoted(SubSeq(ps.source, k + 1, Len(ps.source))))

\* C16 as stated: whenever text other than whitespace or comments is
\* left behind the longest parseable expression the input starts with,
\* Parse returns no tree and the parse error that names that text and its
\* line and column.
C16_LongestExpression ==
    parsed.done /\ Parseable(input) # {} /\ FragmentAt(input, Longest(input)) < Len(input.source)
        => /\ parsed.node.kind = "nil"
           /\ parsed.err = unparsedInput(input, FragmentAt(input, Longest(input)))

\* C16, amended: Parse returns a tree only with the whole input consumed;
\* whenever parseExpression returns without error before the end of the
\* input, Parse returns no tree and the parse error that names the text
\* from there on and its line and column.
C16_WholeInput ==
    parsed.done =>
        LET val == parseExpression(input, skipAllWhitespace(input, StartPos))
        IN /\ parsed.err = NoErr <=> parsed.node.kind # "nil"
           /\ parsed.err = NoErr => parsed.offset = Len(input.source)
           /\ val.err = NoErr /\ val.p.offset < Len(input.source)
                => /\ parsed.node.kind = "nil"
                   /\ parsed.err = unparsedInput(input, val.p.offset)

\* a name, a line end, a blank and a number: the number is left over, on
\* line 2 at column 2
C16_Witness ==
    /\ parsed.done
    /\ input.source = <<"a", "\n", " ", "1">>
    /\ parsed.node.kind = "nil"
    /\ parsed.err = PosErr(<<2, 2>>, "ErrParser", <<"unparsed input: ", "\"", "1", "\"">>)

\* ---------------------------------------------------------------------
\* The positions of errors

\* C17: every error that Parse returns, and every error of the Run of a
\* parsed tree, carries a source position (line and column).
C17_ErrorsCarryPosition ==
    /\ parsed.done /\ parsed.err # NoErr => parsed.err.pos # NoPos
    /\ \A j \in 1..Len(hist) : hist[j].err # NoErr => hist[j].err.pos # NoPos

\* ---------------------------------------------------------------------
\* Operators, duration suffixes and the characters next to them

\* the position of the character behind the first k characters
PosAt(ps, k) == advance(ps, StartPos, k).p

\* the operators and modifiers of the tree n: type and position
RECURSIVE Operators(_)
Operators(n) ==
    CASE n.kind = "Operation" ->
            {[type |-> n.type, pos |-> n.pos]} \cup Operators(n.left) \cup Operators(n.right)
      [] n.kind = "Modifier" -> {[type |-> n.type, pos |-> n.pos]} \cup Operators(n.val)
      [] n.kind = "Subexpression" -> Operators(n.expr)
      [] n.kind = "FieldAccess" -> Operators(n.val)
      [] n.kind = "Call" ->
            Operators(n.fn) \cup UNION {Operators(n.args[i]) : i \in 1..Len(n.args)}
      [] n.kind = "ArrayAccess" -> Operators(n.array) \cup Operators(n.index)
      [] n.kind = "SliceAccess" ->
            Operators(n.array) \cup Operators(n.low) \cup Operators(n.high)
      [] OTHER -> {}

\* the offset of the character at line and column lc
OffsetOf(ps, lc) == CHOOSE k \in 0..Len(ps.source) : LineCol(ps.source, k) = lc

\* the operators of all levels
AllOps == UNION {{opMap(level)[i] : i \in 1..Len(opMap(level))} : level \in 1..7}

\* the operator texts of the class of o that stand at the position of o
TextsAt(ps, o) ==
    {op.op : op \in {q \in AllOps :
                       /\ q.cls = o.type
                       /\ string(ps, PosAt(ps, OffsetOf(ps, o.pos)), Len(q.op)) = q.op}}

\* the character before the operator o and the one behind its text t
Before(ps, o) == char(ps, PosAt(ps, OffsetOf(ps, o.pos)), -1)
Behind(ps, o, t) == char(ps, PosAt(ps, OffsetOf(ps, o.pos)), Len(t))

\* the input starts with a number; where its number characters end
StartsWithNumber(ps) == char(ps, skipAllWhitespace(ps, StartPos), 0) \in Digits
NumberEnd(ps) ==
    LET p == skipAllWhitespace(ps, StartPos)
    IN advance(ps, p, runLength(ps, p, isNumberChar)).p

\* the duration suffixes the text behind the number starts with
SuffixesAt(ps) ==
    {i \in 1..Len(durationSuffixes) :
        string(ps, NumberEnd(ps), suffixLen(durationSuffixes[i])) = durationSuffixes[i]}

NewEnvironmentStandard == NewStandardEnvironment(1)

\* NewEnvironment
NewEnvironment ==
    [n \in {"nil", "true", "false"} |->
        CASE n = "nil" -> NilV
          [] n = "true" -> BoolV(TRUE)
          [] n = "false" -> BoolV(FALSE)]

\* environment 1 is made by NewEnvironment, environment 2 by
\* NewStandardEnvironment; neither has host bindings
InitPlain ==
    /\ InitShell
    /\ envs = [id \in EnvIds |-> IF id = 1 THEN NewEnvironment ELSE NewStandardEnvironment(id)]
    /\ heap = InitState.heap
    /\ hist = <<>>
    /\ input = NoInput
    /\ parsed = NotParsed

\* the constants, the binding operators and their uses
PlainExprs ==
    {Ident("nil"), Ident("true"), Ident("false"), Ident("$define"), Ident("$mutate"),
     Stage1("$define", <<"a">>),
     Stage2("$define", <<"a">>, <<1>>),
     Stage2("$mutate", <<"true">>, <<2>>),
     Ident("a")}

\* the expressions that use a binding operator
UsesOperator ==
    PlainExprs \ {Ident("nil"), Ident("true"), Ident("false"), Ident("a")}

NextPlain == \E e \in EnvIds, n \in PlainExprs : Eval(e, n)

SpecPlain == InitPlain /\ [][NextPlain]_vars

\* C19 as stated: the environment NewEnvironment returns binds nil, true
\* and false and the binding operators, and define works on it at once.
C19_OperatorsBound ==
    /\ hist = <<>> => {"nil", "true", "false", "$define", "$mutate"} \subseteq DOMAIN envs[1]
    /\ \A j \in 1..Len(hist) :
            /\ hist[j].env = 1
            /\ hist[j].expr = Stage2("$define", <<"a">>, <<1>>)
            /\ \A i \in 1..(j - 1) : hist[i].env # 1
            => hist[j].err = NoErr /\ "a" \in DOMAIN hist[j].post.envs[1]

\* C19, amended: the environment NewEnvironment returns binds nil, true
\* and false and nothing else; every use of $define or $mutate on it fails
\* with ErrUnboundVar and binds nothing, so it never gets another name.
\* The environment NewStandardEnvironment returns has both operators.
C19_OnlyConstants ==
    /\ DOMAIN envs[1] = {"nil", "true", "false"}
    /\ envs[1]["nil"] = NilV /\ envs[1]["true"] = BoolV(TRUE) /\ envs[1]["false"] = BoolV(FALSE)
    /\ \A j \in 1..Len(hist) :
            hist[j].env = 1 /\ hist[j].expr \in UsesOperator
            => hist[j].err.type = "ErrUnboundVar" /\ hist[j].vals = <<>>
    /\ \A j \in 1..Len(hist) :
            /\ hist[j].env = 2
            /\ hist[j].expr = Stage2("$define", <<"a">>, <<1>>)
            /\ \A i \in 1..(j - 1) : hist[i].expr # hist[j].expr
            => hist[j].err = NoErr /\ hist[j].post.envs[2]["a"] = Int64V(1)

\* define("a")(1) was evaluated against the environment of NewEnvironment
C19_Witness ==
    \E j \in 1..Len(hist) :
        /\ hist[j].env = 1
        /\ hist[j].expr = Stage2("$define", <<"a">>, <<1>>)
        /\ hist[j].err.type = "ErrUnboundVar"
        /\ DOMAIN hist[j].post.envs[1] = {"nil", "true", "false"}

\* ---------------------------------------------------------------------
\* Handles and the environment they are tagged with

\* the namespace the handles ns and ms wrap
SubNamespace == [n \in {"v"} |-> Int64V(7)]

\* the bindings of both environments: the handles len and ns are tagged
\* with environment 1, g and ms with environment 2
HandleBindings ==
    [n \in {"len", "g", "ns", "ms", "arr"} |->
        CASE n = "len" -> LowerFunc(1, "len", FALSE, <<>>)
          [] n = "g" -> LowerFunc(2, "len", FALSE, <<>>)
          [] n = "ns" -> LowerStruct(1, SubNamespace)
          [] n = "ms" -> LowerStruct(2, SubNamespace)
          [] n = "arr" -> SliceV(<<10, 11, 12, 13, 14>>)]

\* two environments of equal contents, as after a copy of the map
InitHandle ==
    /\ InitShell
    /\ envs = [id \in EnvIds |-> HandleBindings]
    /\ heap = InitState.heap
    /\ hist = <<>>
    /\ input = NoInput
    /\ parsed = NotParsed

\* len(arr), g(arr), ns.v, ms.v
HandleExprs ==
    {Call(Ident("len"), <<Ident("arr")>>), Call(Ident("g"), <<Ident("arr")>>),
     FieldAccess(Ident("ns"), "v"), FieldAccess(Ident("ms"), "v")}

NextHandle == \E e \in EnvIds, n \in HandleExprs : Eval(e, n)

SpecHandle == InitHandle /\ [][NextHandle]_vars

\* the handle an expression of HandleExprs calls or reads
HandleOf(n) == HandleBindings[IF n.kind = "Call" THEN n.fn.name ELSE n.val.name]

\* evaluation j gave what the native function of its handle gives
Native(j) ==
    /\ hist[j].err = NoErr
    /\ hist[j].vals = IF hist[j].expr.kind = "Call"
                      THEN lenBuiltin(<<HandleBindings["arr"]>>, [calls |-> <<>>]).vals
                      ELSE <<SubNamespace["v"]>>

\* C20: both environments have equal contents throughout, and an
\* expression on a handle gives the result of the handle's native
\* function exactly if the handle is tagged with the environment of the
\* evaluation; with the other environment a call is a failed reflect
\* call and a field access gives the zero Value.
C20_IdentityDispatch ==
    /\ envs[1] = envs[2]
    /\ \A j \in 1..Len(hist) :
            /\ Native(j) <=> HandleOf(hist[j].expr).v.env = hist[j].env
            /\ HandleOf(hist[j].expr).v.env # hist[j].env
                => IF hist[j].expr.kind = "Call"
                   THEN hist[j].vals = <<>> /\ hist[j].err.type = "error"
                   ELSE hist[j].vals = <<NilV>> /\ hist[j].err = NoErr

\* len(arr) was evaluated against both environments and ns.v against the
\* second
C20_Witness ==
    /\ envs[1] = envs[2]
    /\ \E i, j, k \in 1..Len(hist) :
            /\ hist[i].env = 1 /\ hist[i].expr = Call(Ident("len"), <<Ident("arr")>>)
            /\ hist[j].env = 2 /\ hist[j].expr = hist[i].expr
            /\ hist[k].env = 2 /\ hist[k].expr = FieldAccess(Ident("ns"), "v")
            /\ Native(i) /\ ~Native(j) /\ ~Native(k)

\* ------------------------------------------------------------------------
\* The session layer: the registry (crawlspace.go)
\* ------------------------------------------------------------------------

\* the names the sessions define themselves
reserved == {"quit", "print", "repr"}

\* the names and the value the host registers with
RegNames == {"x", "y", "quit"}
RegVals == {1}

\* the example value the host registers a type with
RegExamples == {0}

\* a register that rejects a name only if it is registered
rejectsRegistered(name, entries) == name \in DOMAIN entries

\* register: exists || reserved[name]
rejects(name, entries) == name \in DOMAIN entries \/ name \in reserved

\* Crawlspace.register, under the mutex: the map is made if it is nil, a
\* rejected name leaves it as it is, any other name gets the closure that
\* pushes val (pusher is pushVal or pushType) into an environment
register(name, val, pusher) ==
    /\ Len(calls) < MaxCalls
    /\ registrations' =
            [made |-> TRUE,
             entries |-> IF rejects(name, registrations.entries) THEN registrations.entries
                         ELSE MapSet(registrations.entries, name,
                                     [pusher |-> pusher, val |-> val])]
    /\ calls' = Append(calls, [op |-> "register", name |-> name, val |-> val,
                               pusher |-> pusher,
                               failed |-> rejects(name, registrations.entries),
                               before |-> registrations.entries,
                               after |-> registrations'.entries])
    /\ UNCHANGED <<sessions, shells, listener>>
    /\ UNCHANGED langVars

\* RegisterVal
RegisterVal(name, value) == register(name, value, "pushVal")

\* RegisterType
RegisterType(name, example) == register(name, example, "pushType")

\* an Unregister that deletes nothing
deleteNothing(m, name) == m

\* delete(m, name) on a Go map
delete(m, name) == [n \in (DOMAIN m) \ {name} |-> m[n]]

\* Crawlspace.Unregister, under the mutex
Unregister(name) ==
    /\ Len(calls) < MaxCalls
    /\ registrations' = IF ~registrations.made THEN registrations
                        ELSE [registrations EXCEPT !.entries = delete(@, name)]
    /\ calls' = Append(calls, [op |-> "Unregister", name |-> name, val |-> 0,
                               pusher |-> "", failed |-> FALSE,
                               before |-> registrations.entries,
                               after |-> registrations'.entries])
    /\ UNCHANGED <<sessions, shells, listener>>
    /\ UNCHANGED langVars

\* ------------------------------------------------------------------------
\* The session layer: Interact (crawlspace.go)
\*
\* The input of a session is a reader: the lines that end in a line feed,
\* the text after the last line feed, and the error the reader ends with
\* (io.EOF or another error). A line is a sequence of blanks and words; the
\* words are the statements the interpreter is given. The output takes
\* outLeft more writes before it fails (a negative count: it never fails).
\* ------------------------------------------------------------------------

\* the statements of the sessions: quit, an assignment, two names, a
\* statement that does not parse
Words == {"quit()", "y = 1", "y", "x", "bad"}

\* strings.TrimSpace
RECURSIVE TrimSpace(_)
TrimSpace(line) ==
    IF line = <<>> THEN line
    ELSE IF Head(line) = " " THEN TrimSpace(Tail(line))
    ELSE IF line[Len(line)] = " " THEN TrimSpace(SubSeq(line, 1, Len(line) - 1))
    ELSE line

\* bufio.Reader.ReadString('\n'): the next line, or what is left together
\* with the error of the reader
ReadString(in) ==
    IF in.lines # <<>>
    THEN [line |-> Head(in.lines), err |-> "nil", rest |-> [in EXCEPT !.lines = Tail(@)]]
    ELSE [line |-> in.last, err |-> in.end, rest |-> [in EXCEPT !.last = <<>>]]

\* the inner loop of Interact: reads until a line is not empty; returns
\* the error of the reader unless that is io.EOF behind a line that is not
\* empty
RECURSIVE readLine(_)
readLine(in) ==
    LET r == ReadString(in)
        atEOF == r.err = "EOF"
        trimmed == TrimSpace(r.line)
        empty == Len(trimmed) = 0
    IN IF r.err # "nil" /\ (~atEOF \/ empty)
       THEN [line |-> trimmed, eof |-> atEOF, err |-> r.err, rest |-> r.rest]
       ELSE IF ~empty THEN [line |-> trimmed, eof |-> atEOF, err |-> "nil", rest |-> r.rest]
       ELSE readLine(r.rest)

\* vm.Execute(e, nil, line) for the statements of Words: the value (none
\* for nil), the error, the bindings of e afterwards, and whether quit was
\* called
Execute(env, line) ==
    LET res(val, err, after, quit) == [val |-> val, err |-> err, env |-> after, quit |-> quit]
        w == line[1]
    IN IF Len(line) # 1 \/ w = "bad" THEN res(<<>>, "syntax error", env, FALSE)
       ELSE IF w = "quit()"
       THEN (IF "quit" \in DOMAIN env /\ env["quit"].k = "builtin"
             THEN res(<<>>, "nil", env, TRUE)
             ELSE res(<<>>, "cannot call", env, FALSE))
       ELSE IF w = "y = 1" THEN res(<<1>>, "nil", MapSet(env, "y", [k |-> "val", v |-> 1]), FALSE)
       ELSE IF w \in DOMAIN env /\ env[w].k = "val" THEN res(<<env[w].v>>, "nil", env, FALSE)
       ELSE res(<<>>, "undefined symbol", env, FALSE)

\* fmt.Fprintf(out, ...): one write, or the error of the writer
Fprintf(sess, text) ==
    IF sess.outLeft = 0 THEN [sess EXCEPT !.ret = "ErrWrite", !.pc = "returned"]
    ELSE [sess EXCEPT !.out = Append(@, text),
                      !.outLeft = IF @ > 0 THEN @ - 1 ELSE @]

\* a session layer with one interpreter environment for all sessions
NewEnvShared(s) == 1

\* env.NewEnv(): the environment of session s is its own
NewEnv(s) == s

\* the first part of Interact: a new environment, and under the mutex a
\* copy of the names and closures of the registry (the sessions are
\* numbered in the order of their calls of Interact)
InteractStart(s, in, outLeft) ==
    /\ sessions[s].pc = "idle"
    /\ \A t \in 1..(s - 1) : sessions[t].pc # "idle"
    /\ sessions' = [sessions EXCEPT ![s] =
                        [@ EXCEPT !.pc = "started", !.at = Len(calls), !.e = NewEnv(s), !.in = in,
                                  !.outLeft = outLeft, !.snap = registrations.entries]]
    /\ shells' = [shells EXCEPT ![NewEnv(s)] = EmptyMap]
    /\ UNCHANGED <<registrations, listener, calls>>
    /\ UNCHANGED langVars

\* the names of RegNames and reserved in the order of sort.Strings
NamesInOrder == <<"print", "quit", "repr", "x", "y">>

\* sort.Strings on a set of those names
RECURSIVE SortedFrom(_, _)
SortedFrom(k, names) ==
    IF k > Len(NamesInOrder) THEN <<>>
    ELSE (IF NamesInOrder[k] \in names THEN <<NamesInOrder[k]>> ELSE <<>>)
         \o SortedFrom(k + 1, names)

Sorted(names) == SortedFrom(1, names)

\* a session that pushes what the registry holds when it gets to it
registrationsNow(sess, regs) == regs.entries

\* the closures a session pushes: those of its copy
registrationsOf(sess, regs) == sess.snap

\* reg(e) for all closures, then the definitions of quit, print and repr
pushed(snap) ==
    [n \in (DOMAIN snap) \cup reserved |->
        IF n \in reserved THEN [k |-> "builtin", v |-> n]
        ELSE [k |-> IF snap[n].pusher = "pushVal" THEN "val" ELSE "type", v |-> snap[n].val]]

\* the second part of Interact: the registrations are pushed, quit, print
\* and repr defined, and the names written
InteractSetup(s) ==
    /\ sessions[s].pc = "started"
    /\ LET snap == registrationsOf(sessions[s], registrations)
       IN /\ shells' = [shells EXCEPT ![sessions[s].e] = pushed(snap)]
          /\ sessions' = [sessions EXCEPT ![s] =
                Fprintf([@ EXCEPT !.pc = "loop",
                                  !.names = Sorted((DOMAIN snap) \cup reserved)],
                        <<"crawlspace registrations:", Sorted((DOMAIN snap) \cup reserved)>>)]
    /\ UNCHANGED <<registrations, listener, calls>>
    /\ UNCHANGED langVars

\* Interact returns err
return(sess, err) == [sess EXCEPT !.ret = err, !.pc = "returned"]

\* the condition of the outer loop, tested after an iteration that did not
\* return: with eof set Interact returns nil
loopTest(sess) == IF sess.pc = "loop" /\ sess.eof THEN return(sess, "nil") ELSE sess

\* a session that returns the error of an evaluation
failedReturned(sess, err) == return(sess, err)

\* the branch of Interact for an evaluation that failed: the error is
\* written as a line, and the loop continues
failed(sess, err) == Fprintf(sess, <<"error", err>>)

\* one iteration of the outer loop of Interact on the session sess with
\* the bindings env: the prompt, the next line that is not empty, its
\* evaluation, and the line written for its error or its value
iteration(sess, env) ==
    LET prompted == Fprintf(sess, <<"> ">>)
        r == readLine(sess.in)
        read == [prompted EXCEPT !.in = r.rest, !.eof = r.eof]
        x == Execute(env, r.line)
        ran == [read EXCEPT !.eof = @ \/ x.quit,
                            !.log = Append(@, [line |-> r.line, err |-> x.err])]
    IN IF prompted.pc = "returned" THEN [sess |-> prompted, env |-> env]
       ELSE IF r.err # "nil" THEN [sess |-> return(read, r.err), env |-> env]
       ELSE IF x.err # "nil" THEN [sess |-> loopTest(failed(ran, x.err)), env |-> x.env]
       ELSE IF x.val # <<>> THEN [sess |-> loopTest(Fprintf(ran, <<"value", x.val[1]>>)),
                                   env |-> x.env]
       ELSE [sess |-> loopTest(ran), env |-> x.env]

\* the third part of Interact, once per iteration of its outer loop
InteractLine(s) ==
    /\ sessions[s].pc = "loop"
    /\ sessions' = [sessions EXCEPT ![s] = iteration(@, shells[@.e]).sess]
    /\ shells' = [shells EXCEPT ![sessions[s].e] = iteration(sessions[s], @).env]
    /\ UNCHANGED <<registrations, listener, calls>>
    /\ UNCHANGED langVars

\* ------------------------------------------------------------------------
\* The registry and the sessions that start while it changes
\* ------------------------------------------------------------------------

\* a reader that is at its end, and a writer that never fails
EmptyInput == [lines |-> <<>>, last |-> <<>>, end |-> "EOF"]
NeverFails == 0 - 1

NextRegistry ==
    \/ \E name \in RegNames, value \in RegVals : RegisterVal(name, value)
    \/ \E name \in RegNames, example \in RegExamples : RegisterType(name, example)
    \/ \E name \in RegNames : Unregister(name)
    \/ \E s \in SessionIds : InteractStart(s, EmptyInput, NeverFails)
    \/ \E s \in SessionIds : InteractSetup(s)

SpecRegistry == Init /\ [][NextRegistry]_vars

\* C21: RegisterVal and RegisterType return an error and leave the registry
\* as it was when the name is already registered or is one of quit, print
\* and repr; they succeed otherwise, binding a name that was not bound; no
\* reserved name is ever a key of the registry.
C21_RegisterRejects ==
    /\ DOMAIN registrations.entries \cap reserved = {}
    /\ \A i \in 1..Len(calls) :
            calls[i].op = "register" =>
                LET c == calls[i]
                    taken == c.name \in DOMAIN c.before \/ c.name \in {"quit", "print", "repr"}
                IN /\ c.failed <=> taken
                   /\ taken => c.after = c.before
                   /\ ~taken => /\ DOMAIN c.after = DOMAIN c.before \cup {c.name}
                                /\ c.after[c.name] = [pusher |-> c.pusher, val |-> c.val]
                                /\ \A n \in DOMAIN c.before : c.after[n] = c.before[n]

\* a reserved name and a registered name were both registered again, the
\* second as a type where it had been a value
C21_Witness ==
    \E i, j, k \in 1..Len(calls) :
        /\ i < j
        /\ calls[i].op = "register" /\ calls[i].name = "x" /\ ~calls[i].failed
        /\ calls[j].op = "register" /\ calls[j].name = "x" /\ calls[j].failed
        /\ calls[j].pusher # calls[i].pusher
        /\ calls[k].op = "register" /\ calls[k].name = "quit" /\ calls[k].failed

\* the registry as it was when the session took its copy
registryAt(sess) == IF sess.at = 0 THEN EmptyMap ELSE calls[sess.at].after

\* C22: the bindings and the names of a session are those of the registry
\* at the moment its Interact started: a registration made by a call that
\* had returned by then is in the session (unless unregistered by then),
\* one made by a later call is not, and no later call changes the session.
C22_SnapshotAtStart ==
    \A s \in SessionIds :
        sessions[s].pc \in {"loop", "returned"} =>
            LET then == registryAt(sessions[s])
                bound == shells[sessions[s].e]
            IN /\ DOMAIN bound = DOMAIN then \cup {"quit", "print", "repr"}
               /\ \A n \in DOMAIN then :
                    /\ bound[n].v = then[n].val
                    /\ bound[n].k = "val" <=> then[n].pusher = "pushVal"
               /\ \A n \in {"quit", "print", "repr"} : bound[n].k = "builtin"
               /\ sessions[s].names = Sorted(DOMAIN bound)

\* x was registered, the first session started, y was registered and x
\* unregistered, and the second session started: the first has x only, the
\* second y only
C22_Witness ==
    /\ Len(calls) = 3
    /\ calls[1].op = "register" /\ calls[1].name = "x" /\ ~calls[1].failed
    /\ calls[2].op = "register" /\ calls[2].name = "y" /\ ~calls[2].failed
    /\ calls[3].op = "Unregister" /\ calls[3].name = "x"
    /\ sessions[1].pc = "loop" /\ sessions[1].at = 1
    /\ sessions[2].pc = "loop" /\ sessions[2].at = 3
    /\ sessions[1].names = <<"print", "quit", "repr", "x">>
    /\ sessions[2].names = <<"print", "quit", "repr", "y">>
    /\ "x" \in DOMAIN shells[sessions[1].e] /\ "y" \notin DOMAIN shells[sessions[1].e]
    /\ "y" \in DOMAIN shells[sessions[2].e] /\ "x" \notin DOMAIN shells[sessions[2].e]

\* the calls i+1 .. j hold no successful register of name
notRegisteredBetween(name, i, j) ==
    \A k \in (i + 1)..j :
        ~(calls[k].op = "register" /\ calls[k].name = name /\ ~calls[k].failed)

\* C23: after Unregister(name) the name is not in the registry and the
\* other entries are as they were; a session that starts after it (and
\* before the name is registered again) does not bind the name; the next
\* register of the name succeeds unless the name is reserved; Unregister
\* of a name that is not registered changes nothing.
C23_UnregisterRemoves ==
    \A i \in 1..Len(calls) :
        calls[i].op = "Unregister" =>
            LET c == calls[i]
            IN /\ c.name \notin DOMAIN c.after
               /\ DOMAIN c.after = (DOMAIN c.before) \ {c.name}
               /\ \A n \in DOMAIN c.after : c.after[n] = c.before[n]
               /\ c.name \notin DOMAIN c.before => c.after = c.before
               /\ \A s \in SessionIds :
                    (/\ sessions[s].pc \in {"loop", "returned"}
                     /\ sessions[s].at >= i
                     /\ notRegisteredBetween(c.name, i, sessions[s].at)
                     /\ c.name \notin {"quit", "print", "repr"})
                        => /\ c.name \notin DOMAIN shells[sessions[s].e]
                           /\ \A k \in 1..Len(sessions[s].names) : sessions[s].names[k] # c.name
               /\ \A j \in (i + 1)..Len(calls) :
                    (/\ calls[j].op = "register" /\ calls[j].name = c.name
                     /\ notRegisteredBetween(c.name, i, j - 1)
                     /\ c.name \notin {"quit", "print", "repr"})
                        => ~calls[j].failed /\ c.name \in DOMAIN calls[j].after

\* x was registered, unregistered and registered again as a type, and a
\* session that started between the last two calls is running without x
C23_Witness ==
    /\ Len(calls) = 3
    /\ calls[1].op = "register" /\ calls[1].name = "x" /\ calls[1].pusher = "pushVal"
    /\ calls[2].op = "Unregister" /\ calls[2].name = "x" /\ "x" \in DOMAIN calls[2].before
    /\ calls[3].op = "register" /\ calls[3].name = "x" /\ calls[3].pusher = "pushType"
    /\ ~calls[3].failed
    /\ registrations.entries["x"].pusher = "pushType"
    /\ sessions[1].pc = "loop" /\ sessions[1].at = 2
    /\ "x" \notin DOMAIN shells[sessions[1].e]

\* Unregister was called on the zero Crawlspace, and for a name that is not
\* registered in a registry that holds another
C23_WitnessAbsent ==
    /\ Len(calls) = 3
    /\ calls[1].op = "Unregister" /\ calls[1].before = EmptyMap
    /\ calls[2].op = "register" /\ calls[2].name = "y" /\ ~calls[2].failed
    /\ calls[3].op = "Unregister" /\ calls[3].name = "x"
    /\ DOMAIN registrations.entries = {"y"}

\* ------------------------------------------------------------------------
\* Sessions on their inputs
\* ------------------------------------------------------------------------

\* the readers the sessions are given: nothing at all; lines that all end in
\* a line feed; a last line without one; a last line of blanks; quit
\* before the end; a reader that fails
Inputs ==
    { [lines |-> <<>>, last |-> <<>>, end |-> "EOF"],
      [lines |-> << <<"y = 1">>, <<"y">> >>, last |-> <<>>, end |-> "EOF"],
      [lines |-> << <<"bad">>, <<" ">>, <<"y = 1">> >>, last |-> <<" ", "y">>, end |-> "EOF"],
      [lines |-> << <<"x", " ">> >>, last |-> <<" ">>, end |-> "EOF"],
      [lines |-> << <<"y">>, <<"quit()">>, <<"y = 1">> >>, last |-> <<>>, end |-> "EOF"],
      [lines |-> << <<"bad">> >>, last |-> <<"y">>, end |-> "ErrIO"] }

\* the writers: one that never fails, one that fails on its third write
Writers == {NeverFails, 2}

NextSession ==
    \/ \E s \in SessionIds, in \in Inputs, w \in Writers : InteractStart(s, in, w)
    \/ \E s \in SessionIds : InteractSetup(s)
    \/ \E s \in SessionIds : InteractLine(s)

SpecSession == Init /\ [][NextSession]_vars

\* the errors a reader or a writer gives
IOErrors == {"EOF", "ErrIO", "ErrWrite"}

\* C24: Interact returns nil whenever the session ends because its input
\* reached io.EOF or because quit was called, whatever the input is.
C24_NilAtEOF ==
    \A s \in SessionIds :
        (/\ sessions[s].pc = "returned"
         /\ sessions[s].eof
         /\ sessions[s].ret # "ErrWrite")
            => sessions[s].ret = "nil"

\* a session whose input ends without a line feed after its last line, and
\* a session that called quit, have returned nil
C24_Nil ==
    \E s, t \in SessionIds :
        /\ sessions[s].pc = "returned" /\ sessions[s].ret = "nil"
        /\ sessions[s].in = [lines |-> <<>>, last |-> <<>>, end |-> "EOF"]
        /\ sessions[s].log[Len(sessions[s].log)].line = <<"y">>
        /\ sessions[t].pc = "returned" /\ sessions[t].ret = "nil"
        /\ sessions[t].log[Len(sessions[t].log)].line = <<"quit()">>
        /\ sessions[t].in.lines # <<>>

\* the lines of kind in what the session has written
RECURSIVE written(_, _)
written(out, kind) ==
    IF out = <<>> THEN <<>>
    ELSE (IF Head(out)[1] = kind THEN <<Head(out)[2]>> ELSE <<>>) \o written(Tail(out), kind)

\* the errors of the evaluations of the session
RECURSIVE errorsOf(_)
errorsOf(log) ==
    IF log = <<>> THEN <<>>
    ELSE (IF Head(log).err # "nil" THEN <<Head(log).err>> ELSE <<>>) \o errorsOf(Tail(log))

\* C25: for every evaluation that fails the session writes the error as
\* one line and goes on: Interact never returns the error of an
\* evaluation, only nil or the error of its reader or its writer, and it
\* returns nil only when the input is at its end or quit was called.
C25_ErrorsAreWritten ==
    \A s \in SessionIds :
        LET sess == sessions[s]
        IN /\ sess.ret \in {"none", "nil"} \cup IOErrors
           /\ sess.ret # "ErrWrite" => written(sess.out, "error") = errorsOf(sess.log)
           /\ sess.ret = "nil" => sess.eof
           /\ sess.pc = "returned" <=> sess.ret # "none"

\* a session wrote the error of a line that does not parse, and evaluated
\* a later line
C25_Witness ==
    \E s \in SessionIds :
        /\ Len(sessions[s].log) >= 2
        /\ sessions[s].log[1] = [line |-> <<"bad">>, err |-> "syntax error"]
        /\ sessions[s].log[2].err = "nil"
        /\ written(sessions[s].out, "error") = <<"syntax error">>
        /\ written(sessions[s].out, "value") # <<>>

\* the session has given the statement to its interpreter among its first
\* n lines
ranBefore(sess, n, statement) ==
    \E i \in 1..(n - 1) : sess.log[i].line = <<statement>>

\* C26: every session has an environment of its own: y is bound in the
\* environment of a session only by the session's own assignment, the
\* name y evaluates without error in a session exactly if the session
\* itself assigned it before, and a session's loop ends only at the end
\* of its own input or by its own call of quit.
C26_SessionsIsolated ==
    \A s \in SessionIds :
        LET sess == sessions[s]
        IN sess.pc # "idle" =>
            /\ \A t \in SessionIds \ {s} : sessions[t].pc # "idle" => sessions[t].e # sess.e
            /\ "y" \in DOMAIN shells[sess.e] <=> ranBefore(sess, Len(sess.log) + 1, "y = 1")
            /\ \A i \in 1..Len(sess.log) :
                    sess.log[i].line = <<"y">> =>
                        (sess.log[i].err = "nil" <=> ranBefore(sess, i, "y = 1"))
            /\ sess.eof => \/ ranBefore(sess, Len(sess.log) + 1, "quit()")
                            \/ sess.in.lines = <<>>

\* one session evaluated y, got the error of an undefined name, called
\* quit and returned; the other assigned y and is still in its loop
C26_Witness ==
    \E s, t \in SessionIds :
        /\ sessions[s].pc = "loop" /\ ~sessions[s].eof
        /\ sessions[s].log = << [line |-> <<"y = 1">>, err |-> "nil"] >>
        /\ sessions[t].pc = "returned" /\ sessions[t].ret = "nil"
        /\ sessions[t].log = << [line |-> <<"y">>, err |-> "undefined symbol"],
                                 [line |-> <<"quit()">>, err |-> "nil"] >>
        /\ "y" \in DOMAIN shells[sessions[s].e]
        /\ "y" \notin DOMAIN shells[sessions[t].e]

\* ------------------------------------------------------------------------
\* Serve (crawlspace.go): the accept loop. The delay is in milliseconds;
\* slept holds the sleeps since the last accepted connection, conns counts
\* the accepted connections.
\* ------------------------------------------------------------------------

\* time.Second and 5 * time.Millisecond
Second == 1000
FirstDelay == 5

\* an accept loop that doubles its delay without a limit
cappedNever(delay) == delay

\* if delay > time.Second { delay = time.Second }
capped(delay) == IF delay > Second THEN Second ELSE delay

\* the delay after one more temporary error
backoff(delay) == capped(IF delay = 0 THEN FirstDelay ELSE delay * 2)

\* Serve is called
Serve ==
    /\ listener.pc = "idle"
    /\ listener' = [listener EXCEPT !.pc = "accept"]
    /\ UNCHANGED <<registrations, sessions, shells, calls>>
    /\ UNCHANGED langVars

\* l.Accept() returns a temporary error: Serve sleeps and tries again
AcceptTemporary ==
    /\ listener.pc = "accept"
    /\ Len(listener.slept) < MaxErrors
    /\ listener' = [listener EXCEPT !.delay = backoff(@),
                                    !.slept = Append(@, backoff(listener.delay))]
    /\ UNCHANGED <<registrations, sessions, shells, calls>>
    /\ UNCHANGED langVars

\* l.Accept() returns any other error: Serve returns it
AcceptFatal ==
    /\ listener.pc = "accept"
    /\ listener' = [listener EXCEPT !.pc = "returned"]
    /\ UNCHANGED <<registrations, sessions, shells, calls>>
    /\ UNCHANGED langVars

\* l.Accept() returns a connection: the delay is reset and a goroutine is
\* started for the connection
AcceptConn ==
    /\ listener.pc = "accept"
    /\ listener.conns < MaxSessions
    /\ listener' = [listener EXCEPT !.delay = 0, !.slept = <<>>, !.conns = @ + 1]
    /\ UNCHANGED <<registrations, sessions, shells, calls>>
    /\ UNCHANGED langVars

\* what the connections send
ConnInput == [lines |-> << <<"x">>, <<"quit()">> >>, last |-> <<>>, end |-> "EOF"]

\* the goroutine of an accepted connection calls Interact
ServeInteract(s) ==
    /\ s <= listener.conns
    /\ InteractStart(s, ConnInput, NeverFails)

NextServe ==
    \/ Serve
    \/ AcceptTemporary
    \/ AcceptFatal
    \/ AcceptConn
    \/ \E value \in RegVals : RegisterVal("x", value)
    \/ \E s \in SessionIds : ServeInteract(s)
    \/ \E s \in SessionIds : InteractSetup(s)
    \/ \E s \in SessionIds : InteractLine(s)

SpecServe == Init /\ [][NextServe]_vars

\* C27: after k >= 1 temporary accept errors in a row Serve has slept
\* min(5ms * 2^(k-1), 1s) after the k-th, which is never more than one
\* second; an accepted connection resets the delay to zero.
C27_Backoff ==
    /\ \A k \in 1..Len(listener.slept) :
            /\ listener.slept[k] = (IF 5 * 2^(k - 1) < 1000 THEN 5 * 2^(k - 1) ELSE 1000)
            /\ listener.slept[k] <= 1000
    /\ listener.delay = (IF listener.slept = <<>> THEN 0
                         ELSE listener.slept[Len(listener.slept)])

\* Serve has accepted a connection and has since slept after ten errors
\* in a row: five milliseconds after the first, a second after the ninth
\* and the tenth
C27_Witness ==
    /\ listener.conns = 1
    /\ Len(listener.slept) = 10
    /\ listener.slept[1] = 5
    /\ listener.slept[8] = 640
    /\ listener.slept[9] = 1000
    /\ listener.slept[10] = 1000

\* ------------------------------------------------------------------------
\* Second-stage callables of $define that are kept and called later
\* ------------------------------------------------------------------------

\* $define("f", "g")($define("a"), $define("a")): f and g are two
\* second-stage callables for the name a
defineFG ==
    Call(Stage1("$define", <<"f", "g">>),
         <<Stage1("$define", <<"a">>), Stage1("$define", <<"a">>)>>)

\* $define("f")($define("a"))
defineF == Call(Stage1("$define", <<"f">>), <<Stage1("$define", <<"a">>)>>)

StageExprs ==
    {defineFG,
     defineF,
     Call(Ident("f"), IntLits(<<1>>)),
     Call(Ident("f"), IntLits(<<2>>)),
     Call(Ident("g"), IntLits(<<2>>)),
     Stage2("$define", <<"a">>, <<1>>),
     Stage2("$define", <<"b">>, <<1>>),
     Stage1("$define", <<"a">>),
     Ident("a")}

NextStage == \E n \in StageExprs : Eval(1, n)

SpecStage == Init /\ [][NextStage]_vars

\* C28: a second-stage call of $define never changes the value of a name
\* that is already bound: every name bound before an evaluation that makes
\* such a call has the same value after it.
C28_SecondStageBindsUnbound ==
    \A j \in 1..Len(hist) :
        (\E c \in SecondStageCalls(j) : ~c.fn.v.mutate) =>
            \A n \in DOMAIN Pre(j).envs[hist[j].env] :
                /\ n \in DOMAIN hist[j].post.envs[hist[j].env]
                /\ hist[j].post.envs[hist[j].env][n] = Pre(j).envs[hist[j].env][n]

\* a second-stage callable that was obtained while a was unbound bound a,
\* without an error, in an evaluation that a was bound before
C28_Rebound ==
    \E j \in 1..Len(hist) :
        /\ hist[j].expr = Call(Ident("g"), IntLits(<<2>>))
        /\ hist[j].err = NoErr
        /\ "a" \in DOMAIN Pre(j).envs[1]
        /\ Pre(j).envs[1]["a"] = Int64V(1)
        /\ hist[j].post.envs[1]["a"] = Int64V(2)

\* ------------------------------------------------------------------------
\* Claims about the trees Parse returns
\* ------------------------------------------------------------------------

\* no node of the tree is nil
RECURSIVE WellFormed(_)
WellFormed(n) ==
    CASE n.kind = "nil" -> FALSE
      [] n.kind = "FieldAccess" -> WellFormed(n.val)
      [] n.kind = "Call" -> WellFormed(n.fn) /\ \A i \in 1..Len(n.args) : WellFormed(n.args[i])
      [] n.kind = "Operation" -> WellFormed(n.left) /\ WellFormed(n.right)
      [] n.kind = "Modifier" -> WellFormed(n.val)
      [] n.kind = "Subexpression" -> WellFormed(n.expr)
      [] n.kind = "ArrayAccess" -> WellFormed(n.array) /\ WellFormed(n.index)
      [] n.kind = "SliceAccess" ->
            WellFormed(n.array) /\ WellFormed(n.low) /\ WellFormed(n.high)
      [] OTHER -> TRUE

\* C29: every tree that Parse returns without an error is well formed: no
\* node has a nil child; an index access has its index and a slice access
\* both of its bounds.
C29_TreesWellFormed ==
    (parsed.done /\ parsed.err = NoErr) => WellFormed(parsed.node)

\* Parse returned a tree for a[] whose index is nil
C29_NilIndex ==
    /\ input.source = <<"a", "[", "]">>
    /\ parsed.done /\ parsed.err = NoErr
    /\ parsed.node.kind = "ArrayAccess"
    /\ parsed.node.index.kind = "nil"

\* C30: the outcome of Parse (the tree, the error, the position reached)
\* is the same in whatever order the operator map of a level is iterated,
\* also for the operators that share a prefix (<, <=, <>, >, >=).
C30_OrderIndependent ==
    parsed.done =>
        \A o \in Orders :
            LET r == ParserParse([input EXCEPT !.order = o])
            IN /\ r.node = parsed.node
               /\ r.err = parsed.err
               /\ r.p.offset = parsed.offset

\* a<=a was parsed with < tried before <=, and a<>1 with < tried before
\* <>: the tree has the longer operator
C30_Witness ==
    /\ parsed.done /\ parsed.err = NoErr
    /\ input.order = "written"
    /\ opMap(4)[1].op = <<"<">>
    /\ \/ /\ input.source = <<"a", "<", "=", "a">>
          /\ parsed.node.kind = "Operation" /\ parsed.node.type = "<="
       \/ /\ input.source = <<"a", "<", ">", "1">>
          /\ parsed.node.kind = "Operation" /\ parsed.node.type = "!="

====
